---- MODULE Spec2Model ----
(***************************************************************************)
(* Gradely Lecturer: the marks store behind POST /lecturer/marks/batch and *)
(* GET /lecturer/offerings/:id/marks (server.js), and the grading          *)
(* utilities (utils/grading.js, CourseResults in MarksEntry.tsx).          *)
(*                                                                         *)
(* Spec           the server: batch upserts of concurrent requests,        *)
(*                read-back                                                *)
(* SpecGrading    the pure grading functions applied to bounded inputs     *)
(* SpecStats      the class aggregates applied to bounded lists            *)
(* SpecResults    CourseResults: its total and its classification          *)
(* SpecValidation validateAssessmentMarks and calculateAssessmentPercentage *)
(*                applied to bounded inputs                                *)
(* SpecAuth       the /lecturer routes behind authenticate                 *)
(* SpecRegister   POST /auth/register, concurrent registrations            *)
(* SpecIssues     useIssues over the issues routes                         *)
(* SpecUseAuth    useAuth over login, logout and token validation          *)
(* SpecLecturerData  useLecturerData and useMarks as the pages use them    *)
(* SpecUseMarks   enterMarks, updateMarks and bulkEnter over the validators *)
(***************************************************************************)
EXTENDS Integers, Sequences, FiniteSets, TLC

VARIABLES
    Mark,        \* the marks collection: a set of documents (server.js:97)
    now,         \* the clock the timestamps plugin reads (server.js:78)
    req,         \* per connection: the POST /lecturer/marks/batch handler's locals
    getRes,      \* the last response of GET /lecturer/offerings/:id/marks
    lastWrite,   \* history: per (assessmentId, studentId), the last entry applied
    marks,       \* grading: the marks argument (a MarksBreakdown, a marks value);
                 \* CourseResults: its marks state
    total,       \* grading: the total given to the classification
    out,         \* grading: the last result computed
    studentsMarks,       \* grading: the list given to the class aggregates
    gradeScales,         \* CourseResults: its gradeScales state
    selectedOfferingId,  \* CourseResults: its selectedOfferingId state
    assessmentType,      \* validation: the assessmentType argument
    Issue,               \* the issues collection (server.js:114)
    User,                \* the users collection (server.js:94)
    conn,                \* per connection: the locals of the other handlers
    hook,                \* the state of the hook instance under study
    calls,               \* the calls of the hook's functions that are in flight
    localStorage         \* the browser's localStorage

vars == <<Mark, now, req, getRes, lastWrite, marks, total, out,
          studentsMarks, gradeScales, selectedOfferingId, assessmentType,
          Issue, User, conn, hook, calls, localStorage>>
serverVars == <<Mark, now, req, getRes, lastWrite>>
appVars == <<Issue, User, conn, hook, calls, localStorage>>
clientVars == <<studentsMarks, gradeScales, selectedOfferingId, assessmentType, appVars>>
gradingVars == <<marks, total, out, clientVars>>

(***************************************************************************)
(* Bounds and input domains                                                *)
(***************************************************************************)
MaxBatch == 2                      \* entries in one request body
MaxWrites == 3                     \* writes the store takes before the clock stops
Reqs == {"r1", "r2"}               \* connections handled concurrently
Lecturers == {"l1", "l2"}          \* User ids
Students == {"s1"}                 \* Student ids
Offerings == {"o1", "o2"}          \* CourseOffering ids
Assessments == {"a1", "a2"}        \* ids of assessments embedded in the offerings
BadId == "not-an-objectid"         \* a string that does not cast to ObjectId
NoId == "absent"                   \* a field the body does not carry
ForgedId == "l2"                   \* the lecturerId a hand-made body carries
Scores == {-5, 70, 85}             \* scores a body may carry

\* a1 is o1's "Midterm Exam" (maxScore 100), a2 is o2's "CAT" (maxScore 30)
offeringOf(a) == IF a = "a1" THEN "o1" ELSE "o2"
maxScoreOf(a) == IF a = "a1" THEN 100 ELSE 30

\* the bearer tokens a request may carry
NoToken == "no-header"
BadToken == "garbage"
Tokens == {"jwt-l1", "jwt-l2"}
\* jwt.verify: the payload { id } the token was signed with at login
decoded(token) == IF token = "jwt-l1" THEN "l1" ELSE "l2"

Range(s) == {s[i] : i \in 1..Len(s)}

(***************************************************************************)
(* The marks collection                                                    *)
(***************************************************************************)
\* the documents the filter { assessmentId, studentId } matches
matching(coll, a, s) == {d \in coll : d.assessmentId = a /\ d.studentId = s}

\* findOne: the first match in natural (insertion) order
findOne(coll, a, s) ==
    CHOOSE d \in matching(coll, a, s) : \A x \in matching(coll, a, s) : d._id <= x._id

\* the ObjectId a new document gets: fresh in the collection
newId(coll) == Cardinality(coll) + 1

\* the update document of the handler, with the timestamps plugin's updatedAt:
\* $set { assessmentId, offeringId, studentId, lecturerId, score, updatedAt }
applyUpdate_keepScore(d, e, user, t) ==
    [d EXCEPT !.assessmentId = e.assessmentId, !.offeringId = e.offeringId,
              !.studentId = e.studentId, !.lecturerId = user, !.updatedAt = t]

applyUpdate_keepOffering(d, e, user, t) ==
    [d EXCEPT !.assessmentId = e.assessmentId, !.studentId = e.studentId,
              !.lecturerId = user, !.score = e.score, !.updatedAt = t]

applyUpdate_bodyLecturer(d, e, user, t) ==
    [d EXCEPT !.assessmentId = e.assessmentId, !.offeringId = e.offeringId,
              !.studentId = e.studentId,
              !.lecturerId = IF e.lecturerId = NoId THEN user ELSE e.lecturerId,
              !.score = e.score, !.updatedAt = t]

applyUpdate_newIdentity(d, e, user, t) ==
    [d EXCEPT !.assessmentId = e.assessmentId, !.offeringId = e.offeringId,
              !.studentId = e.studentId, !.lecturerId = user, !.score = e.score,
              !.createdAt = t, !.updatedAt = t]

applyUpdate(d, e, user, t) ==
    [d EXCEPT !.assessmentId = e.assessmentId, !.offeringId = e.offeringId,
              !.studentId = e.studentId, !.lecturerId = user, !.score = e.score,
              !.updatedAt = t]

\* the document an upsert inserts: the update's fields, a fresh _id, createdAt
insertedDoc(coll, e, user, t) ==
    [_id |-> newId(coll), assessmentId |-> e.assessmentId, offeringId |-> e.offeringId,
     studentId |-> e.studentId, lecturerId |-> user, score |-> e.score,
     createdAt |-> t, updatedAt |-> t]

\* Mark.findOneAndUpdate(filter, update, { upsert: true, new: true }): one atomic
\* operation of the store; the unique index on (assessmentId, studentId) keeps an
\* upsert that raced another from inserting a second document.
findOneAndUpdate_alwaysInsert(coll, e, user, t) ==
    coll \cup {insertedDoc(coll, e, user, t)}

findOneAndUpdate(coll, e, user, t) ==
    IF matching(coll, e.assessmentId, e.studentId) # {}
    THEN LET d == findOne(coll, e.assessmentId, e.studentId)
         IN  (coll \ {d}) \cup {applyUpdate(d, e, user, t)}
    ELSE coll \cup {insertedDoc(coll, e, user, t)}

returnedDoc_newest(coll, e) == CHOOSE d \in coll : \A x \in coll : d._id >= x._id

\* { new: true }: the document as it is after the operation
returnedDoc(coll, e) == findOne(coll, e.assessmentId, e.studentId)

\* Mongoose casts the filter and the update: an id that is no ObjectId throws CastError
casts(e) == e.assessmentId # BadId

(***************************************************************************)
(* Request bodies                                                          *)
(***************************************************************************)
\* the well-formed entries, and one whose assessmentId is malformed
Entries ==
    [assessmentId : Assessments, studentId : Students,
     offeringId : Offerings, score : Scores, lecturerId : {NoId, ForgedId}]
    \cup {[assessmentId |-> BadId, studentId |-> "s1", offeringId |-> "o1",
            score |-> 70, lecturerId |-> ForgedId]}

Vias == {"direct", "MarksEntry", "StudentList"}

\* MarksEntry.handleSubmit: one entry for the selected offering's assessment;
\* refused when Number(score) > selectedAssessment.maxScore
MarksEntrySubmits(e) ==
    /\ e.assessmentId \in Assessments
    /\ e.offeringId = offeringOf(e.assessmentId)
    /\ e.lecturerId = NoId
    /\ ~(e.score > maxScoreOf(e.assessmentId))

\* StudentList.handleSubmitMarks: one entry per student of the marks map, all for
\* the selected assessment; refused when some Number(score) > maxScore.
\* done: the documents this batch has written so far.
StudentListSubmits(e, done) ==
    /\ e.assessmentId \in Assessments
    /\ e.offeringId = offeringOf(e.assessmentId)
    /\ e.lecturerId = NoId
    /\ ~(e.score > maxScoreOf(e.assessmentId))
    /\ \A d \in done : d.assessmentId = e.assessmentId /\ d.studentId # e.studentId

\* what a request sent through `via` may carry as its next entry
Submits(via, e, done) ==
    CASE via = "MarksEntry" -> MarksEntrySubmits(e)
      [] via = "StudentList" -> StudentListSubmits(e, done)
      [] OTHER -> e.lecturerId = ForgedId

(***************************************************************************)
(* POST /lecturer/marks/batch                                              *)
(***************************************************************************)
NoRes == [status |-> 0, success |-> FALSE, message |-> "", data |-> <<>>]
Idle ==
    [pc |-> "idle", via |-> "direct", user |-> NoId, len |-> 0, idx |-> 0,
     results |-> <<>>, res |-> NoRes]

NoGet == [status |-> 0, id |-> NoId, data |-> {}]
NoWrite == [n |-> 0]
Keys == Assessments \X Students

\* jwt.decode in place of jwt.verify: any token that is present passes
authenticate_unverified(token) ==
    IF token = NoToken
    THEN [ok |-> FALSE, status |-> 401, message |-> "No token provided", user |-> NoId]
    ELSE [ok |-> TRUE, status |-> 0, message |-> "", user |-> decoded(token)]

\* authenticate: 401 without a token, 401 when jwt.verify fails, else req.user
authenticate(token) ==
    IF token = NoToken
    THEN [ok |-> FALSE, status |-> 401, message |-> "No token provided", user |-> NoId]
    ELSE IF token \notin Tokens
    THEN [ok |-> FALSE, status |-> 401, message |-> "Invalid token", user |-> NoId]
    ELSE [ok |-> TRUE, status |-> 0, message |-> "", user |-> decoded(token)]

\* a request arrives: authenticate runs, then the handler up to its first await
\* (an empty body answers at once)
Receive(r, token, via, n) ==
    /\ req[r].pc = "idle"
    /\ req[r].res = NoRes
    /\ via = "MarksEntry" => n = 1
    /\ via = "StudentList" => n \in 1..Cardinality(Students)
    /\ LET a == authenticate(token) IN
       req' = [req EXCEPT ![r] =
           IF ~a.ok
           THEN [Idle EXCEPT !.pc = "done",
                     !.res = [status |-> a.status, success |-> FALSE,
                              message |-> a.message, data |-> <<>>]]
           ELSE IF n = 0
           THEN [Idle EXCEPT !.pc = "done",
                     !.res = [status |-> 200, success |-> TRUE,
                              message |-> "", data |-> <<>>]]
           ELSE [Idle EXCEPT !.pc = "loop", !.via = via, !.user = a.user,
                     !.len = n, !.idx = 1]]
    /\ getRes' = NoGet
    /\ UNCHANGED <<Mark, now, lastWrite, gradingVars>>

\* the documents request r has written so far
written(r) == {d \in Mark : d._id \in Range(req[r].results)}

\* one iteration of the loop: the awaited findOneAndUpdate for entry e resolves,
\* results.push(mark), and after the last entry res.json({ success, data })
Upsert(r, e) ==
    /\ req[r].pc = "loop"
    /\ now <= MaxWrites
    /\ casts(e)
    /\ Submits(req[r].via, e, written(r))
    /\ LET coll == findOneAndUpdate(Mark, e, req[r].user, now)
           mark == returnedDoc(coll, e)
           results == Append(req[r].results, mark._id)
           k == <<e.assessmentId, e.studentId>>
       IN  /\ Mark' = coll
           /\ now' = now + 1
           /\ lastWrite' = [lastWrite EXCEPT ![k] =
                  [n |-> IF lastWrite[k].n = 0 THEN 1 ELSE 2,
                   score |-> e.score, offeringId |-> e.offeringId,
                   user |-> req[r].user]]
           /\ req' = [req EXCEPT ![r] =
                  IF req[r].idx = req[r].len
                  THEN [Idle EXCEPT !.pc = "done", !.len = req[r].len,
                            !.res = [status |-> 200, success |-> TRUE,
                                     message |-> "", data |-> results]]
                  ELSE [@ EXCEPT !.idx = @ + 1, !.results = results]]
    /\ getRes' = NoGet
    /\ UNCHANGED gradingVars

\* the awaited findOneAndUpdate rejects (CastError): the catch block answers 500
\* and the loop is left
UpsertFails(r, e) ==
    /\ req[r].pc = "loop"
    /\ req[r].via = "direct"
    /\ ~casts(e)
    /\ req' = [req EXCEPT ![r] =
           [Idle EXCEPT !.pc = "done", !.len = req[r].len, !.idx = req[r].idx,
                !.res = [status |-> 500, success |-> FALSE,
                         message |-> "Server error", data |-> <<>>]]]
    /\ getRes' = NoGet
    /\ UNCHANGED <<Mark, now, lastWrite, gradingVars>>

(***************************************************************************)
(* GET /lecturer/offerings/:id/marks                                       *)
(***************************************************************************)
\* Mark.find({ offeringId: id })
find_noFilter(coll, id) == coll

find(coll, id) == {d \in coll : d.offeringId = id}

\* marks.map(m => ({ studentId, assessmentId, score }))
formatMarks(found) ==
    {[studentId |-> m.studentId, assessmentId |-> m.assessmentId, score |-> m.score] :
        m \in found}

GetMarks(token, id) ==
    /\ LET a == authenticate(token) IN
       getRes' = IF a.ok
                 THEN [status |-> 200, id |-> id, data |-> formatMarks(find(Mark, id))]
                 ELSE [status |-> a.status, id |-> NoId, data |-> {}]
    /\ UNCHANGED <<Mark, now, req, lastWrite, gradingVars>>

(***************************************************************************)
(* Grading utilities (utils/grading.js). The marks entry forms step by 0.5, *)
(* so every mark and total of this part is counted in half marks: H(n) is   *)
(* n whole marks.                                                          *)
(***************************************************************************)
H(n) == 2 * n
IsWholeMark(t) == t % 2 = 0

Kinds == {"assignment", "quiz", "project", "midsem", "finalExam"}

MAX_MARKS ==
    [assignment |-> 10, quiz |-> 15, project |-> 25, midsem |-> 20, finalExam |-> 30,
     total |-> 100]

GRADE_SCALE_gap ==
    << [grade |-> "A", min |-> 90, max |-> 100], [grade |-> "A-", min |-> 87, max |-> 89],
       [grade |-> "B+", min |-> 84, max |-> 86], [grade |-> "B", min |-> 80, max |-> 83],
       [grade |-> "B-", min |-> 77, max |-> 79], [grade |-> "C+", min |-> 74, max |-> 76],
       [grade |-> "C", min |-> 70, max |-> 73], [grade |-> "C-", min |-> 67, max |-> 69],
       [grade |-> "D+", min |-> 64, max |-> 66], [grade |-> "D", min |-> 62, max |-> 63],
       [grade |-> "D-", min |-> 61, max |-> 61], [grade |-> "F", min |-> 0, max |-> 59] >>

GRADE_SCALE ==
    << [grade |-> "A", min |-> 90, max |-> 100], [grade |-> "A-", min |-> 87, max |-> 89],
       [grade |-> "B+", min |-> 84, max |-> 86], [grade |-> "B", min |-> 80, max |-> 83],
       [grade |-> "B-", min |-> 77, max |-> 79], [grade |-> "C+", min |-> 74, max |-> 76],
       [grade |-> "C", min |-> 70, max |-> 73], [grade |-> "C-", min |-> 67, max |-> 69],
       [grade |-> "D+", min |-> 64, max |-> 66], [grade |-> "D", min |-> 62, max |-> 63],
       [grade |-> "D-", min |-> 60, max |-> 61], [grade |-> "F", min |-> 0, max |-> 59] >>

\* CourseResults' fallback scale (MarksEntry.tsx)
DEFAULT_GRADE_SCALES ==
    << [grade |-> "A", minScore |-> 90, maxScore |-> 100],
       [grade |-> "A-", minScore |-> 87, maxScore |-> 89],
       [grade |-> "B+", minScore |-> 84, maxScore |-> 86],
       [grade |-> "B", minScore |-> 80, maxScore |-> 83],
       [grade |-> "B-", minScore |-> 77, maxScore |-> 79],
       [grade |-> "C+", minScore |-> 74, maxScore |-> 76],
       [grade |-> "C", minScore |-> 70, maxScore |-> 73],
       [grade |-> "C-", minScore |-> 67, maxScore |-> 69],
       [grade |-> "D+", minScore |-> 64, maxScore |-> 66],
       [grade |-> "D", minScore |-> 62, maxScore |-> 63],
       [grade |-> "D-", minScore |-> 60, maxScore |-> 61],
       [grade |-> "F", minScore |-> 0, maxScore |-> 59] >>

\* the scale the seed script inserts into the gradescales collection
seedGradeScales ==
    << [grade |-> "A", minScore |-> 90, maxScore |-> 100],
       [grade |-> "A-", minScore |-> 87, maxScore |-> 89],
       [grade |-> "B+", minScore |-> 84, maxScore |-> 86],
       [grade |-> "B", minScore |-> 80, maxScore |-> 83],
       [grade |-> "B-", minScore |-> 77, maxScore |-> 79],
       [grade |-> "C+", minScore |-> 74, maxScore |-> 76],
       [grade |-> "C", minScore |-> 70, maxScore |-> 73],
       [grade |-> "C-", minScore |-> 67, maxScore |-> 69],
       [grade |-> "D+", minScore |-> 64, maxScore |-> 66],
       [grade |-> "D", minScore |-> 62, maxScore |-> 63],
       [grade |-> "D-", minScore |-> 60, maxScore |-> 61],
       [grade |-> "F", minScore |-> 0, maxScore |-> 59] >>

\* marks.kind || 0: an absent kind counts as 0
or0(m, kind) == IF kind \in DOMAIN m THEN m[kind] ELSE 0

calculateTotal_dropsMidsem(m) ==
    LET t == or0(m, "assignment") + or0(m, "quiz") + or0(m, "project")
             + or0(m, "finalExam")
    IN  IF t < H(MAX_MARKS.total) THEN t ELSE H(MAX_MARKS.total)

calculateTotal_uncapped(m) ==
    or0(m, "assignment") + or0(m, "quiz") + or0(m, "project")
        + or0(m, "midsem") + or0(m, "finalExam")

\* the five kinds summed, then Math.min(total, MAX_MARKS.total)
calculateTotal(m) ==
    LET t == or0(m, "assignment") + or0(m, "quiz") + or0(m, "project")
             + or0(m, "midsem") + or0(m, "finalExam")
    IN  IF t < H(MAX_MARKS.total) THEN t ELSE H(MAX_MARKS.total)

\* GRADE_SCALE.find(entry => total >= entry.min && total <= entry.max), else 'F'
calculateGrade(t) ==
    LET hits == {i \in 1..Len(GRADE_SCALE) :
                    t >= H(GRADE_SCALE[i].min) /\ t <= H(GRADE_SCALE[i].max)}
    IN  IF hits = {} THEN "F"
        ELSE GRADE_SCALE[CHOOSE i \in hits : \A j \in hits : i <= j].grade

PASSING_GRADE == 60

hasPassed_byGrade(t) == calculateGrade(t) # "F"
hasPassed_above(t) == t > H(PASSING_GRADE)

\* total >= PASSING_GRADE
hasPassed(t) == t >= H(PASSING_GRADE)

\* { total, grade, passed } of a breakdown
calculateGradingResult(m) ==
    LET t == calculateTotal(m)
    IN  [total |-> t, grade |-> calculateGrade(t), passed |-> hasPassed(t)]

(***************************************************************************)
(* CourseResults (MarksEntry.tsx): the offering selected, the marks and the *)
(* grade scales fetched, the total of a student and its classification.    *)
(***************************************************************************)
\* a JSON body held in state: an array of items, or an object (no length)
jsonArray(items) == [array |-> TRUE, items |-> items]
jsonObject == [array |-> FALSE, items |-> <<>>]

\* a scale an administrator stored under the server's gradeScaleSchema, as the
\* endpoint returns it (sorted by minScore, descending)
adminGradeScales ==
    << [grade |-> "A+", minScore |-> 95, maxScore |-> 100],
       [grade |-> "A", minScore |-> 80, maxScore |-> 94],
       [grade |-> "B", minScore |-> 70, maxScore |-> 79],
       [grade |-> "C", minScore |-> 60, maxScore |-> 69],
       [grade |-> "D", minScore |-> 50, maxScore |-> 59],
       [grade |-> "E", minScore |-> 0, maxScore |-> 49] >>

\* what GET /lecturer/gradescales can answer: the stored bands (none, the seeded
\* ones, an administrator's), or the object of a 401 or 500
GradeScalesBodies ==
    {jsonArray(<<>>), jsonArray(seedGradeScales), jsonArray(adminGradeScales),
     jsonObject}

\* the offerings of the lecturer as useLecturerData holds them: one with a
\* midterm and a final exam, each out of 100, one with a single test out of 30
offerings ==
    << [id |-> "o1", assessments |-> << [_id |-> "mid", maxScore |-> 100],
                                         [_id |-> "fin", maxScore |-> 100] >>],
       [id |-> "o2", assessments |-> << [_id |-> "cat", maxScore |-> 30] >>] >>

\* rows a marks read-back can hold
MarkRows ==
    { [studentId |-> "s1", assessmentId |-> "mid", score |-> H(70)],
      [studentId |-> "s1", assessmentId |-> "fin", score |-> H(85)],
      [studentId |-> "s1", assessmentId |-> "cat", score |-> H(25)],
      [studentId |-> "s2", assessmentId |-> "mid", score |-> H(85)] }
ResultStudents == {"s1", "s2"}
NoRows == {}

RECURSIVE sumScores(_)
\* studentMarks.reduce((sum, m) => sum + m.score, 0)
sumScores(rows) ==
    IF rows = {} THEN 0
    ELSE LET m == CHOOSE x \in rows : TRUE IN m.score + sumScores(rows \ {m})

\* selectedOffering.assessments.map(a => a._id); none when nothing is selected
validAssessmentIds(selected) ==
    UNION {{offerings[i].assessments[j]._id : j \in 1..Len(offerings[i].assessments)} :
              i \in {k \in 1..Len(offerings) : offerings[k].id = selected}}

\* CourseResults.calculateTotal(studentId)
CourseResults_calculateTotal(rows, selected, studentId) ==
    IF \A i \in 1..Len(offerings) : offerings[i].id # selected THEN 0
    ELSE sumScores({m \in rows : /\ m.studentId = studentId
                                  /\ m.assessmentId \in validAssessmentIds(selected)})

\* gradeScales.length > 0 ? gradeScales : DEFAULT_GRADE_SCALES
scalesToUse(gs) ==
    IF gs.array /\ Len(gs.items) > 0 THEN gs.items ELSE DEFAULT_GRADE_SCALES

getGrade_noFallback(gs, totalScore) ==
    IF totalScore > H(100) THEN "A"
    ELSE LET hits == {i \in 1..Len(gs.items) :
                         /\ totalScore >= H(gs.items[i].minScore)
                         /\ totalScore <= H(gs.items[i].maxScore)}
         IN  IF hits = {} THEN "F"
             ELSE gs.items[CHOOSE i \in hits : \A j \in hits : i <= j].grade

\* CourseResults.getGrade(totalScore)
getGrade(gs, totalScore) ==
    IF totalScore > H(100) THEN "A"
    ELSE LET scales == scalesToUse(gs)
             hits == {i \in 1..Len(scales) :
                         /\ totalScore >= H(scales[i].minScore)
                         /\ totalScore <= H(scales[i].maxScore)}
         IN  IF hits = {} THEN "F"
             ELSE scales[CHOOSE i \in hits : \A j \in hits : i <= j].grade

(***************************************************************************)
(* Validation (utils/validation.js). A JavaScript value is a record: t is   *)
(* "number" (finite, v in half marks), "NaN", "Infinity", "string",         *)
(* "undefined" or "function".                                              *)
(***************************************************************************)
jsNumber(v) == [t |-> "number", v |-> v]
NaN == [t |-> "NaN"]
Infinity == [t |-> "Infinity"]
undefined == [t |-> "undefined"]
\* typeof x
typeof(x) == IF x.t \in {"number", "NaN", "Infinity"} THEN "number" ELSE x.t
\* isNaN(x) of a value whose typeof is number
isNaN(x) == x.t = "NaN"

\* property names every object literal inherits from Object.prototype
InheritedNames == {"constructor", "toString"}

\* maxMarks[assessmentType] of the object literal of validateAssessmentMarks
maxMarks(type) ==
    CASE type = "assignment" -> jsNumber(H(10))
      [] type = "quiz" -> jsNumber(H(15))
      [] type = "project" -> jsNumber(H(25))
      [] type = "midsem" -> jsNumber(H(20))
      [] type = "finalExam" -> jsNumber(H(30))
      [] type \in InheritedNames -> [t |-> "function"]
      [] OTHER -> undefined

\* !x of a maximum: undefined is falsy, a non-zero number and a function are not
not(x) == x.t = "undefined" \/ (x.t = "number" /\ x.v = 0)
\* x < 0 of a value whose typeof is number, not NaN
lessThan0(x) == x.t = "number" /\ x.v < 0
\* x > max of such a value: a function converts to NaN, which compares false
greaterThan(x, max) ==
    /\ max.t = "number"
    /\ x.t = "Infinity" \/ (x.t = "number" /\ x.v > max.v)

validateAssessmentMarks(type, m) ==
    IF typeof(m) # "number" \/ isNaN(m)
    THEN [isValid |-> FALSE, errors |-> <<"Marks must be a valid number">>]
    ELSE LET max == maxMarks(type)
             errors == (IF lessThan0(m) THEN <<"Marks cannot be negative">> ELSE <<>>)
                       \o (IF not(max) THEN <<"Invalid assessment type">>
                           ELSE IF greaterThan(m, max) THEN <<"Marks cannot exceed">>
                           ELSE <<>>)
         IN  [isValid |-> Len(errors) = 0, errors |-> errors]

(***************************************************************************)
(* Class aggregates. Averages and rates are numbers with two decimals and   *)
(* are counted in hundredths; highest and lowest are totals, in half marks. *)
(***************************************************************************)
\* studentsMarks.map(student => calculateTotal(student))
totalsOf(sm) == [i \in 1..Len(sm) |-> calculateTotal(sm[i])]

RECURSIVE sumSeq(_)
\* totals.reduce((acc, total) => acc + total, 0)
sumSeq(ts) == IF ts = <<>> THEN 0 ELSE Head(ts) + sumSeq(Tail(ts))

\* parseFloat((num / den).toFixed(2)) of a quotient >= 0, in hundredths; num and
\* den count the same unit. toFixed takes the nearest two-decimal number and, of
\* two equally near, the larger; lists shorter than 8 give only ties that a double
\* holds exactly (eighths).
toFixed2(num, den) == (200 * num + den) \div (2 * den)

\* the students of the list that hasPassed accepts
passedOf(sm) == {i \in 1..Len(sm) : hasPassed(calculateTotal(sm[i]))}
failedOf(sm) == {i \in 1..Len(sm) : ~hasPassed(calculateTotal(sm[i]))}

calculateAverage(sm) ==
    IF Len(sm) = 0 THEN 0
    ELSE toFixed2(sumSeq(totalsOf(sm)), H(Len(sm)))

findHighest(sm) ==
    IF Len(sm) = 0 THEN 0
    ELSE LET T == Range(totalsOf(sm)) IN CHOOSE x \in T : \A y \in T : x >= y

findLowest_first(sm) ==
    IF Len(sm) = 0 THEN 0 ELSE totalsOf(sm)[1]

findLowest(sm) ==
    IF Len(sm) = 0 THEN 0
    ELSE LET T == Range(totalsOf(sm)) IN CHOOSE x \in T : \A y \in T : x <= y

calculatePassRate(sm) ==
    IF Len(sm) = 0 THEN 0
    ELSE toFixed2(Cardinality(passedOf(sm)) * 100, Len(sm))

\* MAX_MARKS[assessmentType]: the six keys of MAX_MARKS, an inherited name, or
\* nothing
maxMarksOfType(type) ==
    IF type \in DOMAIN MAX_MARKS THEN jsNumber(H(MAX_MARKS[type]))
    ELSE IF type \in InheritedNames THEN [t |-> "function"]
    ELSE undefined

\* calculateAssessmentPercentage(marks, assessmentType): a number counted in
\* hundredths of a percent, NaN or Infinity
calculateAssessmentPercentage(m, type) ==
    LET max == maxMarksOfType(type)
    IN  IF not(max) THEN jsNumber(0)
        ELSE IF max.t = "function" \/ m.t \in {"NaN", "undefined", "string"} THEN NaN
        ELSE IF m.t = "Infinity" THEN Infinity
        ELSE IF m.v >= 0 THEN jsNumber(toFixed2(100 * m.v, max.v))
        ELSE jsNumber(0 - toFixed2(100 * (0 - m.v), max.v))

calculateClassStatistics(sm) ==
    [average |-> calculateAverage(sm),
     highest |-> findHighest(sm),
     lowest |-> findLowest(sm),
     passRate |-> calculatePassRate(sm),
     totalStudents |-> Len(sm),
     passedStudents |-> Cardinality(passedOf(sm)),
     failedStudents |-> Cardinality(failedOf(sm))]

\* GRADE_SCALE.forEach(entry => { distribution[entry.grade] = 0 })
zeroDistribution == [g \in {GRADE_SCALE[i].grade : i \in 1..Len(GRADE_SCALE)} |-> 0]

RECURSIVE countGrades(_, _)
\* studentsMarks.forEach(student => { distribution[grade]++ })
countGrades(distribution, sm) ==
    IF sm = <<>> THEN distribution
    ELSE LET grade == calculateGrade(calculateTotal(Head(sm)))
         IN  countGrades(IF grade \in DOMAIN distribution
                           THEN [distribution EXCEPT ![grade] = @ + 1]
                           ELSE distribution @@ (grade :> 1),
                         Tail(sm))

getGradeDistribution_sparse(sm) == countGrades(<<>>, sm)

getGradeDistribution(sm) == countGrades(zeroDistribution, sm)

\* the README's example breakdown (total 83)
ExampleMarks ==
    [assignment |-> 8, quiz |-> 13, project |-> 20, midsem |-> 17, finalExam |-> 25]

\* inputs: per kind 0, the example's mark, the maximum, half a mark above the
\* maximum, or the kind left out
kindValues(kind) ==
    {0, H(ExampleMarks[kind]), H(MAX_MARKS[kind]), H(MAX_MARKS[kind]) + 1}
FullMarks ==
    [assignment : kindValues("assignment"), quiz : kindValues("quiz"),
     project : kindValues("project"), midsem : kindValues("midsem"),
     finalExam : kindValues("finalExam")]
MarksInputs == {[kind \in D |-> f[kind]] : f \in FullMarks, D \in SUBSET Kinds}
\* breakdowns on the pass boundary: 59, 59.5 and 60 marks
BoundaryMarks ==
    { [assignment |-> H(9), quiz |-> H(15), project |-> H(25), midsem |-> H(10)],
      [assignment |-> H(9) + 1, quiz |-> H(15), project |-> H(25), midsem |-> H(10)],
      [assignment |-> H(10), quiz |-> H(15), project |-> H(25), midsem |-> H(10)] }
NoMarks == [kind \in {} |-> 0]
\* totals from two marks below 0 to two marks above 100, in half marks
Totals == (0 - H(2))..(H(MAX_MARKS.total) + H(2))

NoOut == [op |-> "none"]

CalculateTotal ==
    /\ out = NoOut
    /\ out' = [op |-> "calculateTotal", total |-> calculateTotal(marks)]
    /\ UNCHANGED <<marks, total, serverVars, clientVars>>

CalculateGrade ==
    /\ out = NoOut
    /\ out' = [op |-> "calculateGrade", grade |-> calculateGrade(total)]
    /\ UNCHANGED <<marks, total, serverVars, clientVars>>

\* breakdowns with totals 95, 82, 59, 70, 60, and 100.5 marks before the cap
StatsBreakdowns ==
    { [assignment |-> H(10), quiz |-> H(15), project |-> H(25), midsem |-> H(20),
       finalExam |-> H(25)],
      [assignment |-> H(8), quiz |-> H(13), project |-> H(20), midsem |-> H(17),
       finalExam |-> H(24)],
      [assignment |-> H(9), quiz |-> H(15), project |-> H(25), midsem |-> H(10)],
      [assignment |-> H(10), quiz |-> H(15), project |-> H(25), midsem |-> H(20)],
      [assignment |-> H(10), quiz |-> H(15), project |-> H(25), midsem |-> H(10)],
      [assignment |-> H(10) + 1, quiz |-> H(15), project |-> H(25), midsem |-> H(20),
       finalExam |-> H(30)] }
MaxStudents == 4
StudentsMarksInputs == UNION {[1..n -> StatsBreakdowns] : n \in 0..MaxStudents}

CalculateClassStatistics ==
    /\ out = NoOut
    /\ out' = [op |-> "calculateClassStatistics",
               stats |-> calculateClassStatistics(studentsMarks)]
    /\ UNCHANGED <<marks, total, serverVars, clientVars>>

GetGradeDistribution ==
    /\ out = NoOut
    /\ out' = [op |-> "getGradeDistribution",
               distribution |-> getGradeDistribution(studentsMarks)]
    /\ UNCHANGED <<marks, total, serverVars, clientVars>>

\* fetchGradeScales: the body becomes the state; a failed fetch or a body that is
\* not JSON is caught and leaves the state as it was
FetchGradeScales ==
    /\ \/ \E data \in GradeScalesBodies : gradeScales' = data
       \/ gradeScales' = gradeScales
    /\ out' = NoOut
    /\ total' = 0
    /\ UNCHANGED <<marks, selectedOfferingId, studentsMarks, assessmentType, serverVars,
                   appVars>>

\* handleOfferingChange: the offering is selected and, when the read-back
\* succeeds, its rows replace the marks
HandleOfferingChange(offeringId) ==
    /\ selectedOfferingId' = offeringId
    /\ \/ \E data \in SUBSET MarkRows : marks' = data
       \/ marks' = marks
    /\ out' = NoOut
    /\ total' = 0
    /\ UNCHANGED <<gradeScales, studentsMarks, assessmentType, serverVars, appVars>>

CourseResultsCalculateTotal(studentId) ==
    /\ out' = [op |-> "CourseResults.calculateTotal", studentId |-> studentId,
               total |-> CourseResults_calculateTotal(marks, selectedOfferingId, studentId)]
    /\ total' = 0
    /\ UNCHANGED <<marks, serverVars, clientVars>>

GetGrade(totalScore) ==
    /\ total' = totalScore
    /\ out' = [op |-> "getGrade", grade |-> getGrade(gradeScales, totalScore)]
    /\ UNCHANGED <<marks, serverVars, clientVars>>

\* assessment types given to the validation: the five kinds, a key of MAX_MARKS
\* the validation does not know, an unknown word, and inherited property names
TypeInputs == Kinds \cup {"total", "homework"} \cup InheritedNames
\* marks values: from one mark below 0 to one mark above the greatest maximum, in
\* half marks, and the values that are no finite number
MarksValues ==
    {jsNumber(v) : v \in (0 - H(1))..(H(30) + H(1))}
        \cup {NaN, Infinity, undefined, [t |-> "string"]}

ValidateAssessmentMarks ==
    /\ out = NoOut
    /\ out' = [op |-> "validateAssessmentMarks",
               result |-> validateAssessmentMarks(assessmentType, marks)]
    /\ UNCHANGED <<marks, total, serverVars, clientVars>>

CalculateAssessmentPercentage ==
    /\ out = NoOut
    /\ out' = [op |-> "calculateAssessmentPercentage",
               result |-> calculateAssessmentPercentage(marks, assessmentType)]
    /\ UNCHANGED <<marks, total, serverVars, clientVars>>

HasPassed ==
    /\ out = NoOut
    /\ out' = [op |-> "hasPassed", passed |-> hasPassed(total)]
    /\ UNCHANGED <<marks, total, serverVars, clientVars>>

CalculateGradingResult ==
    /\ out = NoOut
    /\ out' = [op |-> "calculateGradingResult", result |-> calculateGradingResult(marks)]
    /\ UNCHANGED <<marks, total, serverVars, clientVars>>

(***************************************************************************)
(* The specifications                                                      *)
(***************************************************************************)
\* nothing stored, no connection open, no hook mounted
AppIdle ==
    /\ Issue = {}
    /\ User = {}
    /\ conn = <<>>
    /\ hook = [name |-> "none"]
    /\ calls = <<>>
    /\ localStorage = <<>>
ClientIdle ==
    /\ studentsMarks = <<>>
    /\ gradeScales = jsonArray(<<>>)
    /\ selectedOfferingId = NoId
    /\ assessmentType = NoId
    /\ AppIdle
GradingIdle == marks = NoMarks /\ total = 0 /\ out = NoOut /\ ClientIdle
ServerIdle ==
    /\ Mark = {}
    /\ now = 1
    /\ req = [r \in Reqs |-> Idle]
    /\ getRes = NoGet
    /\ lastWrite = [k \in Keys |-> NoWrite]

Init == ServerIdle /\ GradingIdle

Next ==
    \/ \E r \in Reqs, token \in Tokens \cup {NoToken, BadToken}, via \in Vias,
          n \in 0..MaxBatch : Receive(r, token, via, n)
    \/ \E r \in Reqs, e \in Entries : Upsert(r, e)
    \/ \E r \in Reqs, e \in Entries : UpsertFails(r, e)
    \/ \E token \in Tokens \cup {NoToken, BadToken}, id \in Offerings : GetMarks(token, id)

Spec == Init /\ [][Next]_vars

InitGrading ==
    /\ ServerIdle
    /\ ClientIdle
    /\ out = NoOut
    /\ \/ marks \in MarksInputs \cup BoundaryMarks /\ total = 0
       \/ marks = NoMarks /\ total \in Totals

NextGrading ==
    CalculateTotal \/ CalculateGrade \/ HasPassed \/ CalculateGradingResult

SpecGrading == InitGrading /\ [][NextGrading]_vars

InitStats ==
    /\ ServerIdle
    /\ marks = NoMarks /\ total = 0 /\ out = NoOut
    /\ studentsMarks \in StudentsMarksInputs
    /\ gradeScales = jsonArray(<<>>)
    /\ selectedOfferingId = NoId
    /\ assessmentType = NoId
    /\ AppIdle

NextStats == CalculateClassStatistics \/ GetGradeDistribution

SpecStats == InitStats /\ [][NextStats]_vars

InitResults ==
    /\ ServerIdle
    /\ marks = NoRows /\ total = 0 /\ out = NoOut
    /\ ClientIdle

NextResults ==
    \/ FetchGradeScales
    \/ \E offeringId \in {offerings[i].id : i \in 1..Len(offerings)} :
          HandleOfferingChange(offeringId)
    \/ \E studentId \in ResultStudents : CourseResultsCalculateTotal(studentId)
    \/ \E totalScore \in Totals : GetGrade(totalScore)

SpecResults == InitResults /\ [][NextResults]_vars

InitValidation ==
    /\ ServerIdle
    /\ marks \in MarksValues /\ total = 0 /\ out = NoOut
    /\ studentsMarks = <<>>
    /\ gradeScales = jsonArray(<<>>)
    /\ selectedOfferingId = NoId
    /\ assessmentType \in TypeInputs
    /\ AppIdle

NextValidation == ValidateAssessmentMarks \/ CalculateAssessmentPercentage

SpecValidation == InitValidation /\ [][NextValidation]_vars

(***************************************************************************)
(* Claims about the marks store                                            *)
(***************************************************************************)
keyOf(d) == <<d.assessmentId, d.studentId>>
stored(k) == matching(Mark, k[1], k[2])
WrittenKeys == {k \in Keys : lastWrite[k].n > 0}

\* C1: after any sequence and interleaving of batch requests the store holds at
\* most one record for each (assessmentId, studentId) pair.
C1_AtMostOnePerKey ==
    \A d1 \in Mark : \A d2 \in Mark : keyOf(d1) = keyOf(d2) => d1 = d2

\* a key written more than once holds one record, next to a record of another key
C1_Witness ==
    \E k \in Keys :
        /\ lastWrite[k].n = 2
        /\ Cardinality(stored(k)) = 1
        /\ Cardinality(Mark) = 2

\* scenario 5 on an empty store: upserts of 70 then 85 for the same key
Scenario5Store ==
    LET e70 == [assessmentId |-> "a1", studentId |-> "s1", offeringId |-> "o1",
                score |-> 70, lecturerId |-> NoId]
        e85 == [e70 EXCEPT !.score = 85]
    IN  findOneAndUpdate(findOneAndUpdate({}, e70, "l1", 1), e85, "l1", 2)

\* C2: a key that has been upserted (once, twice in a row, with the same score or
\* another) has exactly one stored record, whose score is the one submitted last;
\* 70 then 85 leave one record with score 85.
C2_LastWriteWins ==
    /\ \A k \in WrittenKeys :
           /\ Cardinality(stored(k)) = 1
           /\ \A d \in stored(k) : d.score = lastWrite[k].score
    /\ Cardinality(Scenario5Store) = 1
    /\ \A d \in Scenario5Store : d.score = 85

\* one request wrote the same key twice in a row and the store holds the last score
C2_Witness ==
    \E r \in Reqs : \E d \in Mark :
        /\ req[r].pc = "done" /\ req[r].res.data = <<d._id, d._id>>
        /\ \A o \in Reqs \ {r} : req[o].pc = "idle"
        /\ lastWrite[keyOf(d)].n = 2
        /\ d.score = 85 /\ lastWrite[keyOf(d)].score = 85

\* C3: when two batch requests upsert the same key concurrently, the stored record
\* carries the score, lecturerId and offeringId of one write (the one committed
\* last), never a mixture of the two.
C3_OneWriteNotAMixture ==
    \A k \in WrittenKeys : \A d \in stored(k) :
        /\ d.score = lastWrite[k].score
        /\ d.lecturerId = lastWrite[k].user
        /\ d.offeringId = lastWrite[k].offeringId

\* two requests of different lecturers, both in their loop, have written one record
C3_Witness ==
    \E r1 \in Reqs : \E r2 \in Reqs \ {r1} : \E d \in Mark :
        /\ req[r1].pc = "loop" /\ req[r2].pc = "loop"
        /\ req[r1].user # req[r2].user
        /\ d \in written(r1) /\ d \in written(r2)

\* a later-listed entry of r was never applied: the loop was left at idx < len
skipped(r) == req[r].pc = "done" /\ req[r].res.status = 500 /\ req[r].idx < req[r].len
\* the response reports an outcome for each entry of the body
reportsPerEntry(r) == Len(req[r].res.data) = req[r].len

\* C4 (as claimed): a failure on one entry never causes a later-listed entry to be
\* skipped unless the response reports the outcome entry by entry.
C4_SkippedOnlyIfReported ==
    \A r \in Reqs : skipped(r) => reportsPerEntry(r)

\* an upsert resolved in this step
upserted == now' = now + 1
\* the record the step wrote
writtenDocs == Mark' \ Mark

\* C5 (as claimed): an upsert that finds a record overwrites only its score and
\* lecturerId: the record's identity, creation timestamp, key and offeringId stay.
C5_OnlyScoreAndGrader ==
    [][\A d \in Mark : \E d2 \in Mark' :
          /\ d2._id = d._id /\ d2.createdAt = d.createdAt
          /\ keyOf(d2) = keyOf(d) /\ d2.offeringId = d.offeringId]_vars

\* C5 (amended): an upsert that finds a record overwrites its score, lecturerId and
\* offeringId and refreshes updatedAt, keeping _id, createdAt, assessmentId and
\* studentId, and leaves every other record alone; an upsert that finds none adds
\* exactly one record and changes no other.
C5_UpsertFrame ==
    [][upserted =>
          /\ Cardinality(writtenDocs) = 1
          /\ \A d2 \in writtenDocs :
                IF stored(keyOf(d2)) # {}
                THEN \E d \in stored(keyOf(d2)) :
                        /\ Mark' = (Mark \ {d}) \cup {d2}
                        /\ d2._id = d._id /\ d2.createdAt = d.createdAt
                        /\ keyOf(d2) = keyOf(d)
                ELSE /\ Mark' = Mark \cup {d2}
                     /\ \A d \in Mark : d._id # d2._id]_vars

\* a record that an upsert found and overwrote, offeringId included
C5_Witness ==
    \E d \in Mark :
        /\ d.updatedAt > d.createdAt
        /\ lastWrite[keyOf(d)].n = 2
        /\ d.offeringId # offeringOf(d.assessmentId)

\* C6 (as claimed): every persisted score satisfies 0 <= score <= maxScore of its
\* assessment.
C6_ScoreInRange ==
    \A d \in Mark : 0 <= d.score /\ d.score <= maxScoreOf(d.assessmentId)

\* C7: the stored lecturerId is the user id decoded from the token of the request
\* that wrote the key last; a lecturerId of the body never reaches the store.
C7_GraderFromToken ==
    /\ \A k \in WrittenKeys : \A d \in stored(k) :
           d.lecturerId = lastWrite[k].user /\ d.lecturerId \in Lecturers
    /\ \A r \in Reqs : req[r].pc = "loop" =>
           /\ req[r].user \in {decoded(t) : t \in Tokens}
           /\ \A o \in Reqs \ {r} : req[o].pc = "idle" =>
                  \A d \in written(r) : d.lecturerId = req[r].user

\* a hand-made body carrying lecturerId l2 under l1's token has written a record
C7_Witness ==
    \E r \in Reqs : \E d \in written(r) :
        /\ req[r].pc = "loop" /\ req[r].via = "direct"
        /\ \A o \in Reqs \ {r} : req[o].pc = "idle"
        /\ req[r].user # ForgedId
        /\ d.lecturerId = req[r].user

\* C8: the read-back returns exactly the stored marks whose offeringId is :id, each
\* as (studentId, assessmentId, score).
C8_ReadBackExact ==
    getRes.status = 200 =>
        /\ \A d \in Mark : d.offeringId = getRes.id =>
               \E x \in getRes.data :
                   /\ x.studentId = d.studentId /\ x.assessmentId = d.assessmentId
                   /\ x.score = d.score
        /\ \A x \in getRes.data :
               /\ DOMAIN x = {"studentId", "assessmentId", "score"}
               /\ \E d \in Mark :
                      /\ d.offeringId = getRes.id
                      /\ x.studentId = d.studentId /\ x.assessmentId = d.assessmentId
                      /\ x.score = d.score

\* a read-back that returned a mark and left out a mark of another offering
C8_Witness ==
    /\ getRes.status = 200
    /\ getRes.data # {}
    /\ \E d \in Mark : d.offeringId # getRes.id

(***************************************************************************)
(* Claims about the grading utilities                                      *)
(***************************************************************************)
RECURSIVE SumOver(_, _)
\* the sum of m over the kinds of D
SumOver(m, D) ==
    IF D = {} THEN 0
    ELSE LET kind == CHOOSE x \in D : TRUE IN m[kind] + SumOver(m, D \ {kind})

\* every value present lies in [0, max of its kind]
InRange(m) == \A kind \in DOMAIN m : 0 <= m[kind] /\ m[kind] <= H(MAX_MARKS[kind])

\* C9: for marks whose values lie in [0, max of the kind], absent kinds counting 0,
\* calculateTotal never exceeds 100, equals the exact sum when the sum is <= 100,
\* and is 0 for all-zero input.
C9_TotalIsCappedSum ==
    (out.op = "calculateTotal" /\ InRange(marks)) =>
        /\ out.total <= H(100)
        /\ SumOver(marks, DOMAIN marks) <= H(100) =>
               out.total = SumOver(marks, DOMAIN marks)
        /\ (\A kind \in DOMAIN marks : marks[kind] = 0) => out.total = 0

\* the example breakdown without its assignment mark: 13 + 20 + 17 + 25 = 75
C9_Witness ==
    /\ out.op = "calculateTotal"
    /\ InRange(marks)
    /\ DOMAIN marks = Kinds \ {"assignment"}
    /\ out.total = H(75)

\* the bands of a scale that hold total t
bandsMinMax(scale, t) ==
    {i \in 1..Len(scale) : H(scale[i].min) <= t /\ t <= H(scale[i].max)}
bandsMinMaxScore(scale, t) ==
    {i \in 1..Len(scale) : H(scale[i].minScore) <= t /\ t <= H(scale[i].maxScore)}

\* C10: each built-in scale partitions [0,100]: every integer total from 0 to 100
\* lies in exactly one band of GRADE_SCALE, of DEFAULT_GRADE_SCALES and of the
\* seeded scale.
C10_ScalesPartition ==
    (IsWholeMark(total) /\ 0 <= total /\ total <= H(100)) =>
        /\ Cardinality(bandsMinMax(GRADE_SCALE, total)) = 1
        /\ Cardinality(bandsMinMaxScore(DEFAULT_GRADE_SCALES, total)) = 1
        /\ Cardinality(bandsMinMaxScore(seedGradeScales, total)) = 1

\* the total 60, on the boundary of D- and F, classified
C10_Witness ==
    /\ total = H(60)
    /\ out.op = "calculateGrade"
    /\ out.grade = "D-"

\* C11 (as claimed): for every total greater than 100, calculateGrade returns the
\* label it returns for 100.
C11_Above100SameAs100 ==
    (out.op = "calculateGrade" /\ total > H(100)) =>
        out.grade = calculateGrade(H(100))

\* C13: hasPassed(total) is true exactly when total >= 60, for every total, whatever
\* label the classification gives that total.
C13_PassedIffAtLeast60 ==
    out.op = "hasPassed" =>
        /\ out.passed \in BOOLEAN
        /\ out.passed <=> total >= H(60)

\* a total of 101 passes although calculateGrade labels it F
C13_Witness ==
    /\ out.op = "hasPassed"
    /\ total = H(101)
    /\ out.passed
    /\ calculateGrade(total) = "F"

\* the example breakdown in half marks
ExampleBreakdown == [kind \in Kinds |-> H(ExampleMarks[kind])]

\* C19: calculateGradingResult(marks) returns total = calculateTotal(marks), grade =
\* calculateGrade(total) and passed = hasPassed(total); marks 8, 13, 20, 17, 25 give
\* 83, B, true; marks summing to 59 give F and false; marks summing to 60 give D-
\* and true.
C19_ResultIsComposition ==
    out.op = "calculateGradingResult" =>
        /\ out.result.total = calculateTotal(marks)
        /\ out.result.grade = calculateGrade(out.result.total)
        /\ out.result.passed = hasPassed(out.result.total)
        /\ marks = ExampleBreakdown =>
               out.result = [total |-> H(83), grade |-> "B", passed |-> TRUE]
        /\ SumOver(marks, DOMAIN marks) = H(59) =>
               out.result.grade = "F" /\ out.result.passed = FALSE
        /\ SumOver(marks, DOMAIN marks) = H(60) =>
               out.result.grade = "D-" /\ out.result.passed = TRUE

\* a breakdown of 9 + 15 + 25 + 10 = 59 marks graded F and failed
C19_Witness ==
    /\ out.op = "calculateGradingResult"
    /\ marks \in BoundaryMarks
    /\ SumOver(marks, DOMAIN marks) = H(59)
    /\ out.result = [total |-> H(59), grade |-> "F", passed |-> FALSE]

\* the 12 labels of the scale
Labels == {"A", "A-", "B+", "B", "B-", "C+", "C", "C-", "D+", "D", "D-", "F"}

\* C14: for the empty list calculateClassStatistics returns average, highest,
\* lowest, passRate, passed count and failed count all 0, and getGradeDistribution
\* returns a mapping holding every band label with count 0.
C14_EmptyListIsZero ==
    studentsMarks = <<>> =>
        /\ out.op = "calculateClassStatistics" =>
               /\ out.stats.average = 0 /\ out.stats.highest = 0
               /\ out.stats.lowest = 0 /\ out.stats.passRate = 0
               /\ out.stats.passedStudents = 0 /\ out.stats.failedStudents = 0
        /\ out.op = "getGradeDistribution" =>
               /\ DOMAIN out.distribution = Labels
               /\ \A g \in Labels : out.distribution[g] = 0

\* the distribution of the empty list
C14_Witness ==
    /\ studentsMarks = <<>>
    /\ out.op = "getGradeDistribution"
    /\ out.distribution["A"] = 0 /\ out.distribution["F"] = 0

\* the capped total of a breakdown, from its sum
cappedSum(m) ==
    LET sum == SumOver(m, DOMAIN m) IN IF sum > H(100) THEN H(100) ELSE sum
\* the capped totals of a list
cappedSums(sm) == [i \in 1..Len(sm) |-> cappedSum(sm[i])]
\* n is x / y rounded to the nearest integer (either way on a tie)
IsRounded(n, x, y) == 2 * (n * y - x) <= y /\ 2 * (x - n * y) <= y

\* C15: for a non-empty list highest is the maximum total, lowest the minimum,
\* average the mean rounded to 2 decimals, passRate passed / total * 100 rounded
\* to 2 decimals, and passed + failed = total; totals 95, 82, 59, 70 give 76.5,
\* 95, 59, 75, 3 and 1.
C15_StatisticsOfList ==
    (out.op = "calculateClassStatistics" /\ studentsMarks # <<>>) =>
        LET ts == cappedSums(studentsMarks)
            n == Len(studentsMarks)
            st == out.stats
            passed == Cardinality({i \in 1..n : ts[i] >= H(60)})
        IN  /\ st.highest \in Range(ts) /\ \A i \in 1..n : ts[i] <= st.highest
            /\ st.lowest \in Range(ts) /\ \A i \in 1..n : ts[i] >= st.lowest
            /\ IsRounded(st.average, 100 * sumSeq(ts), H(n))
            /\ st.passedStudents = passed
            /\ IsRounded(st.passRate, 100 * 100 * passed, n)
            /\ st.totalStudents = n
            /\ st.passedStudents + st.failedStudents = st.totalStudents
            /\ ts = <<H(95), H(82), H(59), H(70)>> =>
                   /\ st.average = 7650 /\ st.highest = H(95) /\ st.lowest = H(59)
                   /\ st.passRate = 7500
                   /\ st.passedStudents = 3 /\ st.failedStudents = 1

\* scenario 4: the statistics of totals 95, 82, 59, 70
C15_Witness ==
    /\ out.op = "calculateClassStatistics"
    /\ cappedSums(studentsMarks) = <<H(95), H(82), H(59), H(70)>>
    /\ out.stats.average = 7650 /\ out.stats.passRate = 7500

RECURSIVE SumCounts(_, _)
\* the counts of d over the labels of L, summed
SumCounts(d, L) ==
    IF L = {} THEN 0
    ELSE LET g == CHOOSE x \in L : TRUE IN d[g] + SumCounts(d, L \ {g})

\* the label of the band holding whole total t; F where no band holds it
labelOf(t) ==
    IF \E i \in 1..Len(GRADE_SCALE) :
           H(GRADE_SCALE[i].min) <= t /\ t <= H(GRADE_SCALE[i].max)
    THEN GRADE_SCALE[CHOOSE i \in 1..Len(GRADE_SCALE) :
                        H(GRADE_SCALE[i].min) <= t /\ t <= H(GRADE_SCALE[i].max)].grade
    ELSE "F"

\* C16: getGradeDistribution returns a mapping holding every one of the 12 band
\* labels, each count being the number of students whose capped total classifies
\* to that label, so the counts sum to the number of students.
C16_DistributionCounts ==
    out.op = "getGradeDistribution" =>
        /\ DOMAIN out.distribution = Labels
        /\ \A g \in Labels :
               out.distribution[g] =
                   Cardinality({i \in 1..Len(studentsMarks) :
                                   labelOf(cappedSum(studentsMarks[i])) = g})
        /\ SumCounts(out.distribution, Labels) = Len(studentsMarks)

\* a list holding a breakdown above 100 marks, counted under A, and a failed one
C16_Witness ==
    /\ out.op = "getGradeDistribution"
    /\ \E i \in 1..Len(studentsMarks) :
           SumOver(studentsMarks[i], DOMAIN studentsMarks[i]) > H(100)
    /\ out.distribution["A"] >= 1
    /\ out.distribution["F"] >= 1

(***************************************************************************)
(* Claims about CourseResults                                              *)
(***************************************************************************)
\* the band of a scale with the greatest maxScore
topBand(scales) ==
    scales[CHOOSE i \in 1..Len(scales) :
               \A j \in 1..Len(scales) : scales[i].maxScore >= scales[j].maxScore]

\* C12 (as claimed): for every total above the highest band's max getGrade returns
\* the label of the top band of the scale in use, the configured scale when one
\* was fetched and the default otherwise.
C12_AboveTopIsTopBand ==
    (out.op = "getGrade" /\ total > H(topBand(scalesToUse(gradeScales)).maxScore)) =>
        out.grade = topBand(scalesToUse(gradeScales)).grade

\* the rows of a student under the assessments of the selected offering
rowsOfSelected(studentId) ==
    {m \in marks :
        /\ m.studentId = studentId
        /\ \E i \in 1..Len(offerings) :
               /\ offerings[i].id = selectedOfferingId
               /\ \E j \in 1..Len(offerings[i].assessments) :
                      offerings[i].assessments[j]._id = m.assessmentId}

\* C17 (as claimed): the total CourseResults shows for a student is the sum of the
\* student's marks over exactly the assessments of the selected offering, capped
\* at 100.
C17_TotalOfOfferingCapped ==
    out.op = "CourseResults.calculateTotal" =>
        LET sum == sumScores(rowsOfSelected(out.studentId))
        IN  out.total = IF sum > H(100) THEN H(100) ELSE sum

\* the spec's default table
SpecDefaultTable ==
    << <<"A", 90, 100>>, <<"A-", 87, 89>>, <<"B+", 84, 86>>, <<"B", 80, 83>>,
       <<"B-", 77, 79>>, <<"C+", 74, 76>>, <<"C", 70, 73>>, <<"C-", 67, 69>>,
       <<"D+", 64, 66>>, <<"D", 62, 63>>, <<"D-", 60, 61>>, <<"F", 0, 59>> >>

\* C18: when the grade-scale lookup returned no bands or failed, getGrade
\* classifies with the built-in default scale: for every integer total in [0,100]
\* it returns a label, the one calculateGrade returns with GRADE_SCALE, which is
\* the label of the spec's default table.
C18_EmptyScaleIsDefault ==
    (/\ out.op = "getGrade"
     /\ gradeScales \in {jsonArray(<<>>), jsonObject}
     /\ IsWholeMark(total) /\ 0 <= total /\ total <= H(100)) =>
        /\ out.grade = calculateGrade(total)
        /\ \E i \in 1..Len(SpecDefaultTable) :
               /\ SpecDefaultTable[i][1] = out.grade
               /\ H(SpecDefaultTable[i][2]) <= total
               /\ total <= H(SpecDefaultTable[i][3])

\* the lookup answered with an object (a 401 or 500) and 87 is classified A-
C18_Witness ==
    /\ out.op = "getGrade"
    /\ gradeScales = jsonObject
    /\ total = H(87)
    /\ out.grade = "A-"

(***************************************************************************)
(* Claims about the validation                                             *)
(***************************************************************************)
\* the maxima of the five kinds, whole marks
KindMax ==
    [assignment |-> 10, quiz |-> 15, project |-> 25, midsem |-> 20, finalExam |-> 30]

\* C20 (as claimed): validateAssessmentMarks(type, marks) returns isValid = true
\* exactly when marks is a number other than NaN, type is one of the five known
\* kinds and 0 <= marks <= that kind's maximum; in every other case isValid is
\* false and errors is non-empty.
C20_ValidIffKnownKindInRange ==
    out.op = "validateAssessmentMarks" =>
        /\ out.result.isValid <=>
               /\ marks.t = "number"
               /\ assessmentType \in Kinds
               /\ 0 <= marks.v /\ marks.v <= H(KindMax[assessmentType])
        /\ ~out.result.isValid => out.result.errors # <<>>

\* C21 (as claimed): an operation given an assessment kind with no configured
\* maximum surfaces the unknown kind and never silently yields zero:
\* validateAssessmentMarks answers invalid with an error, and
\* calculateAssessmentPercentage does not answer 0.
C21_UnknownKindSurfaced ==
    /\ (out.op = "validateAssessmentMarks" /\ assessmentType \notin Kinds) =>
           ~out.result.isValid /\ out.result.errors # <<>>
    /\ (out.op = "calculateAssessmentPercentage"
           /\ assessmentType \notin DOMAIN MAX_MARKS) =>
           out.result # jsNumber(0)

\* C25 (as claimed): for every total from 0 to 100 in steps of 0.5 calculateGrade
\* returns F only when total < 60, so a total that hasPassed accepts is never
\* graded F.
C25_FOnlyBelow60 ==
    (out.op = "calculateGrade" /\ 0 <= total /\ total <= H(100)) =>
        /\ out.grade = "F" => total < H(60)
        /\ hasPassed(total) => out.grade # "F"

(***************************************************************************)
(* Claims about the order of a batch                                       *)
(***************************************************************************)
\* request r applied its next entry in this step: the store took one write, whose
\* record the request appended to its results
appliedNext(r) ==
    /\ upserted
    /\ Cardinality(writtenDocs) = 1
    /\ \A d \in writtenDocs :
           /\ d.score = lastWrite'[keyOf(d)].score
           /\ \A x \in Mark' : keyOf(x) = keyOf(d) => x = d
           /\ IF req[r].idx < req[r].len
              THEN /\ req'[r].pc = "loop"
                   /\ req'[r].idx = req[r].idx + 1
                   /\ req'[r].results = Append(req[r].results, d._id)
              ELSE /\ req'[r].pc = "done"
                   /\ req'[r].res.status = 200
                   /\ req'[r].res.data = Append(req[r].results, d._id)
                   /\ Len(req'[r].res.data) = req[r].len
\* request r failed at its next entry in this step: the store is as it was and
\* the request is over with the entries from idx on unapplied
failedAtNext(r) ==
    /\ Mark' = Mark
    /\ req'[r].pc = "done"
    /\ req'[r].res.status = 500
    /\ req'[r].idx = req[r].idx
    /\ req'[r].idx <= req'[r].len

\* C23: the batch handler applies its entries one at a time in list order: the
\* applied entries of a request are the first idx - 1 of its list, each step of a
\* request applies exactly the next entry or fails at it and ends the request
\* with the earlier entries stored and the later ones unapplied, a later-listed
\* entry of the same key overwrites the earlier one, and a successful response
\* carries one stored mark per entry in list order.
C23_AppliedInListOrder ==
    [][(\A r \in Reqs :
           /\ req[r].pc = "loop" =>
                  /\ Len(req[r].results) = req[r].idx - 1
                  /\ req[r].idx <= req[r].len
                  /\ req'[r] # req[r] => appliedNext(r) \/ failedAtNext(r)
           /\ req[r].pc = "done" => req'[r] = req[r]
           /\ req[r].res.status = 200 =>
                  /\ Len(req[r].res.data) = req[r].len
                  /\ \A i \in 1..Len(req[r].res.data) :
                         \E d \in Mark : d._id = req[r].res.data[i])
       /\ (Mark' # Mark => \E r \in Reqs : req[r].pc = "loop" /\ req'[r] # req[r])]_vars

\* a batch of two entries failed at its second entry: the first is stored
C23_Witness ==
    \E r \in Reqs :
        /\ req[r].pc = "done" /\ req[r].res.status = 500
        /\ req[r].len = 2 /\ req[r].idx = 2
        /\ \A o \in Reqs \ {r} : req[o].pc = "idle"
        /\ Cardinality(Mark) = 1

(***************************************************************************)
(* Issues and accounts (server.js): PUT /lecturer/issues/:id/resolve,      *)
(* GET /lecturer/issues, POST /auth/register. Each connection of Conns     *)
(* carries one request; conn[c] holds its handler's locals.                *)
(***************************************************************************)
pureVars == <<marks, total, out, studentsMarks, gradeScales, selectedOfferingId,
              assessmentType>>

Conns == {"c1", "c2", "c3"}        \* connections of the other handlers
IssueIds == {"i1", "i2"}           \* ids of the issues students have filed
MissingIssue == "i9"               \* a well-formed id no issue has
Emails == {"ann@uni", "bob@uni"}   \* emails a registration may carry
Names == {"Ann", NoId}             \* fullName of a registration body

\* the offering an issue was filed on, and who teaches the offerings
issueOffering(i) == IF i = "i1" THEN "o1" ELSE "o2"
assignedLecturerIds(o) == IF o = "o1" THEN {"l1"} ELSE {"l1", "l2"}

\* issueSchema: status defaults to 'open' when the issue is filed
filedIssues == {[_id |-> i, offeringId |-> issueOffering(i), status |-> "open"] : i \in IssueIds}

IdleConn ==
    [pc |-> "idle", route |-> "", token |-> NoToken, id |-> NoId, email |-> NoId,
     fullName |-> NoId, res |-> NoRes]

\* the middleware's answer to a request it turns away
rejected(a) == [status |-> a.status, success |-> FALSE, message |-> a.message, data |-> <<>>]
serverError == [status |-> 500, success |-> FALSE, message |-> "Server error", data |-> <<>>]

\* a request for a /lecturer route arrives: authenticate runs, then the handler
\* up to its first await
received(c, route, token, id) ==
    LET a == authenticate(token) IN
    [conn EXCEPT ![c] =
        IF ~a.ok
        THEN [IdleConn EXCEPT !.pc = "done", !.route = route, !.token = token,
                  !.res = rejected(a)]
        ELSE [IdleConn EXCEPT !.pc = "await", !.route = route, !.token = token,
                  !.id = id]]

\* Issue.findByIdAndUpdate(id, { status: 'resolved' }, { new: true })
findByIdAndUpdate_reopens(coll, id, update) ==
    {IF d._id = id THEN [d EXCEPT !.status = update.status]
                   ELSE [d EXCEPT !.status = "open"] : d \in coll}

findByIdAndUpdate(coll, id, update) ==
    {IF d._id = id THEN [d EXCEPT !.status = update.status] ELSE d : d \in coll}

\* the document findByIdAndUpdate resolves to: <<>> stands for null
updatedDoc(coll, id) == IF \E d \in coll : d._id = id
                        THEN <<CHOOSE d \in coll : d._id = id>>
                        ELSE <<>>

ReceiveResolve(c, token, id) ==
    /\ conn[c].pc = "idle"
    /\ conn' = received(c, "resolve", token, id)
    /\ UNCHANGED <<Issue, User, hook, calls, localStorage, serverVars, pureVars>>

\* the update of PUT /lecturer/issues/:id/resolve and its answer; an id that
\* does not cast to ObjectId rejects and the catch answers 500
ResolveUpdate(c) ==
    /\ conn[c].pc = "await"
    /\ conn[c].route = "resolve"
    /\ IF conn[c].id = BadId
       THEN /\ conn' = [conn EXCEPT ![c].pc = "done", ![c].res = serverError]
            /\ UNCHANGED Issue
       ELSE /\ Issue' = findByIdAndUpdate(Issue, conn[c].id, [status |-> "resolved"])
            /\ conn' = [conn EXCEPT ![c].pc = "done",
                   ![c].res = [status |-> 200, success |-> TRUE, message |-> "",
                               data |-> updatedDoc(Issue', conn[c].id)]]
    /\ UNCHANGED <<User, hook, calls, localStorage, serverVars, pureVars>>

ReceiveIssues(c, token) ==
    /\ conn[c].pc = "idle"
    /\ conn' = received(c, "issues", token, NoId)
    /\ UNCHANGED <<Issue, User, hook, calls, localStorage, serverVars, pureVars>>

\* Issue.find({ offeringId: { $in: offeringIds } }) of the lecturer's offerings
issuesOf(coll, user) ==
    {d \in coll : user \in assignedLecturerIds(d.offeringId)}

\* the query of GET /lecturer/issues and its answer, a bare array
FindIssues(c) ==
    /\ conn[c].pc = "await"
    /\ conn[c].route = "issues"
    /\ conn' = [conn EXCEPT ![c].pc = "done",
           ![c].res = [status |-> 200, success |-> TRUE, message |-> "",
                       data |-> issuesOf(Issue, decoded(conn[c].token))]]
    /\ UNCHANGED <<Issue, User, hook, calls, localStorage, serverVars, pureVars>>

\* POST /auth/register arrives: the handler runs up to await User.findOne
ReceiveRegister(c, email, fullName) ==
    /\ conn[c].pc = "idle"
    /\ conn' = [conn EXCEPT ![c] =
           [IdleConn EXCEPT !.pc = "findOne", !.route = "register", !.email = email,
                !.fullName = fullName]]
    /\ UNCHANGED <<Issue, User, hook, calls, localStorage, serverVars, pureVars>>

\* User.findOne({ email }) resolves
RegisterFindOne(c) ==
    /\ conn[c].pc = "findOne"
    /\ conn' = [conn EXCEPT ![c] =
           IF \E u \in User : u.email = conn[c].email
           THEN [@ EXCEPT !.pc = "done",
                    !.res = [status |-> 400, success |-> FALSE,
                             message |-> "User already exists", data |-> <<>>]]
           ELSE [@ EXCEPT !.pc = "save"]]
    /\ UNCHANGED <<Issue, User, hook, calls, localStorage, serverVars, pureVars>>

\* user.save(): the document is validated (fullName is required), then the
\* insert meets the unique index on email
save_noIndex(coll, doc) ==
    IF doc.fullName = NoId THEN [ok |-> FALSE, coll |-> coll]
    ELSE [ok |-> TRUE, coll |-> coll \cup {doc}]

save(coll, doc) ==
    IF doc.fullName = NoId THEN [ok |-> FALSE, coll |-> coll]
    ELSE IF \E u \in coll : u.email = doc.email THEN [ok |-> FALSE, coll |-> coll]
    ELSE [ok |-> TRUE, coll |-> coll \cup {doc}]

\* bcrypt.hash, new User and user.save(), then the answer
RegisterSave(c) ==
    /\ conn[c].pc = "save"
    /\ LET doc == [_id |-> c, email |-> conn[c].email, fullName |-> conn[c].fullName,
                   role |-> "lecturer"]
           s == save(User, doc)
       IN /\ User' = s.coll
          /\ conn' = [conn EXCEPT ![c].pc = "done",
                 ![c].res = IF s.ok
                            THEN [status |-> 201, success |-> TRUE,
                                  message |-> "User registered successfully",
                                  data |-> <<>>]
                            ELSE serverError]
    /\ UNCHANGED <<Issue, hook, calls, localStorage, serverVars, pureVars>>

AllTokens == Tokens \cup {NoToken, BadToken}

\* one connection of each kind, every token: who gets to the store
InitAuth ==
    /\ ServerIdle
    /\ marks = NoMarks /\ total = 0 /\ out = NoOut
    /\ studentsMarks = <<>>
    /\ gradeScales = jsonArray(<<>>)
    /\ selectedOfferingId = NoId
    /\ assessmentType = NoId
    /\ Issue = filedIssues
    /\ User = {}
    /\ conn = [c \in {"c1"} |-> IdleConn]
    /\ hook = [name |-> "none"]
    /\ calls = <<>>
    /\ localStorage = <<>>

NextAuth ==
    \/ \E token \in AllTokens, via \in Vias, n \in 0..MaxBatch :
          Receive("r1", token, via, n)
    \/ \E e \in Entries : Upsert("r1", e)
    \/ \E e \in Entries : UpsertFails("r1", e)
    \/ \E token \in AllTokens, id \in Offerings : GetMarks(token, id)
    \/ \E token \in AllTokens, id \in IssueIds \cup {MissingIssue, BadId} :
          ReceiveResolve("c1", token, id)
    \/ ResolveUpdate("c1")
    \/ \E token \in AllTokens : ReceiveIssues("c1", token)
    \/ FindIssues("c1")

SpecAuth == InitAuth /\ [][NextAuth]_vars

\* registrations racing on the users collection
InitRegister ==
    /\ ServerIdle
    /\ marks = NoMarks /\ total = 0 /\ out = NoOut
    /\ studentsMarks = <<>>
    /\ gradeScales = jsonArray(<<>>)
    /\ selectedOfferingId = NoId
    /\ assessmentType = NoId
    /\ Issue = {}
    /\ User = {}
    /\ conn = [c \in Conns |-> IdleConn]
    /\ hook = [name |-> "none"]
    /\ calls = <<>>
    /\ localStorage = <<>>

NextRegister ==
    \/ \E c \in Conns, email \in Emails, fullName \in Names :
          ReceiveRegister(c, email, fullName)
    \/ \E c \in Conns : RegisterFindOne(c)
    \/ \E c \in Conns : RegisterSave(c)

SpecRegister == InitRegister /\ [][NextRegister]_vars

(***************************************************************************)
(* C27: the /lecturer handlers behind authenticate                         *)
(***************************************************************************)
unauthorized(message) ==
    [status |-> 401, success |-> FALSE, message |-> message, data |-> <<>>]

\* what authenticate answers to the token of connection c
turnedAway(c) ==
    CASE conn'[c].token = NoToken -> conn'[c].res = unauthorized("No token provided")
      [] conn'[c].token \notin Tokens \cup {NoToken} ->
             conn'[c].res = unauthorized("Invalid token")
      [] OTHER -> conn'[c].res = NoRes

\* C27: a /lecturer request without a token is answered 401 'No token
\* provided' and one whose token does not verify 401 'Invalid token'; the step
\* that answers 401 leaves the marks and the issues as they were, and only a
\* handler whose request carried a verified token writes a mark, changes an
\* issue or answers with what the store holds.
C27_TokenGuardsStore ==
    [][ /\ \A c \in DOMAIN conn :
              conn[c].pc = "idle" /\ conn'[c].pc # "idle" =>
                  /\ turnedAway(c)
                  /\ conn'[c].token \notin Tokens =>
                         conn'[c].pc = "done" /\ Mark' = Mark /\ Issue' = Issue
        /\ \A c \in DOMAIN conn :
              conn'[c].res.status = 200 => conn'[c].token \in Tokens
        /\ \A r \in Reqs :
              req[r].pc = "idle" /\ req'[r].pc # "idle" /\ req'[r].user \notin Lecturers
              /\ req'[r].res.status # 200 =>
                  /\ req'[r].res \in {unauthorized("No token provided"),
                                      unauthorized("Invalid token")}
                  /\ req'[r].pc = "done" /\ Mark' = Mark /\ Issue' = Issue
        /\ getRes' # getRes /\ getRes'.status = 401 =>
              getRes'.data = {} /\ Mark' = Mark /\ Issue' = Issue
        /\ Mark' # Mark =>
              \E r \in Reqs : req[r].pc = "loop" /\ req[r].user \in Lecturers
        /\ Issue' # Issue =>
              \E c \in DOMAIN conn : conn[c].pc = "await" /\ conn[c].token \in Tokens
      ]_vars

\* both kinds of refusal have been given, on both routes, and the store is as
\* it was
C27_Witness ==
    /\ conn["c1"].route = "resolve"
    /\ conn["c1"].res = unauthorized("Invalid token")
    /\ req["r1"].res = unauthorized("No token provided")
    /\ getRes.status = 401
    /\ Mark = {}
    /\ Issue = filedIssues

(***************************************************************************)
(* C26: registrations racing on one email                                  *)
(***************************************************************************)
hasUser(email) == \E u \in User : u.email = email

alreadyExists ==
    [status |-> 400, success |-> FALSE, message |-> "User already exists", data |-> <<>>]

getAuthToken == IF "lecturer_auth_token" \in DOMAIN localStorage
                THEN localStorage["lecturer_auth_token"]
                ELSE NoToken

NoCall == [fn |-> "", arg |-> NoId, pc |-> "idle"]
NoError == "null"

\* the call of connection c has been answered and not yet been taken up
answered(c, fn) ==
    /\ calls[c].fn = fn
    /\ calls[c].pc = "sent"
    /\ conn[c].pc = "done"

\* response.ok
ok(res) == res.status \in 200..299

useIssues == [name |-> "useIssues", issues |-> {}, loading |-> FALSE, error |-> NoError]

\* fetchIssues up to its await
FetchIssues(c) ==
    /\ calls[c].pc = "idle"
    /\ conn[c].pc = "idle"
    /\ hook' = [hook EXCEPT !.loading = TRUE]
    /\ calls' = [calls EXCEPT ![c] = [fn |-> "fetchIssues", arg |-> NoId, pc |-> "sent"]]
    /\ conn' = received(c, "issues", getAuthToken, NoId)
    /\ UNCHANGED <<Issue, User, localStorage, serverVars, pureVars>>

\* fetchIssues from its await on: setIssues or setError, then finally
FetchIssuesSettles(c) ==
    /\ answered(c, "fetchIssues")
    /\ hook' = IF ok(conn[c].res)
               THEN [hook EXCEPT !.issues = conn[c].res.data, !.loading = FALSE]
               ELSE [hook EXCEPT !.error = conn[c].res.message, !.loading = FALSE]
    /\ calls' = [calls EXCEPT ![c].pc = "done"]
    /\ UNCHANGED <<Issue, User, conn, localStorage, serverVars, pureVars>>

\* resolveIssue up to its await
ResolveIssue(c, issueId) ==
    /\ calls[c].pc = "idle"
    /\ conn[c].pc = "idle"
    /\ calls' = [calls EXCEPT ![c] = [fn |-> "resolveIssue", arg |-> issueId, pc |-> "sent"]]
    /\ conn' = received(c, "resolve", getAuthToken, issueId)
    /\ UNCHANGED <<Issue, User, hook, localStorage, serverVars, pureVars>>

\* prev.map(issue => issue._id === issueId ? { ...issue, status: 'resolved' } : issue)
markResolved(prev, issueId) ==
    {IF issue._id = issueId THEN [issue EXCEPT !.status = "resolved"] ELSE issue :
        issue \in prev}

\* resolveIssue from its await on
ResolveIssueSettles(c) ==
    /\ answered(c, "resolveIssue")
    /\ hook' = IF ~ok(conn[c].res)
               THEN [hook EXCEPT !.error = conn[c].res.message]
               ELSE IF conn[c].res.success
               THEN [hook EXCEPT !.issues = markResolved(hook.issues, calls[c].arg)]
               ELSE hook
    /\ calls' = [calls EXCEPT ![c].pc = "done"]
    /\ UNCHANGED <<Issue, User, conn, localStorage, serverVars, pureVars>>

\* the lecturer's page, with a token that verifies or one that has expired,
\* and a colleague's client resolving issues on its own
InitIssues ==
    /\ ServerIdle
    /\ marks = NoMarks /\ total = 0 /\ out = NoOut
    /\ studentsMarks = <<>>
    /\ gradeScales = jsonArray(<<>>)
    /\ selectedOfferingId = NoId
    /\ assessmentType = NoId
    /\ Issue = filedIssues
    /\ User = {}
    /\ conn = [c \in Conns |-> IdleConn]
    /\ hook = useIssues
    /\ calls = [c \in Conns |-> NoCall]
    /\ \E token \in {"jwt-l1", BadToken} :
          localStorage = [k \in {"lecturer_auth_token"} |-> token]

NextIssues ==
    \/ \E c \in Conns : FetchIssues(c)
    \/ \E c \in Conns : FetchIssuesSettles(c)
    \/ \E c \in Conns, issueId \in IssueIds \cup {MissingIssue, BadId} : ResolveIssue(c, issueId)
    \/ \E c \in Conns : ResolveIssueSettles(c)
    \/ \E c \in Conns, id \in IssueIds : ReceiveResolve(c, "jwt-l2", id)
    \/ \E c \in Conns : ResolveUpdate(c)
    \/ \E c \in Conns : FindIssues(c)

SpecIssues == InitIssues /\ [][NextIssues]_vars

(***************************************************************************)
(* C28: the status of an issue, on the server and in the hook's list       *)
(***************************************************************************)
statusOf(coll, i) == {d.status : d \in {x \in coll : x._id = i}}

\* the call of connection c is taken up by its hook in this step
settles(c, fn) == calls[c].fn = fn /\ calls[c].pc = "sent" /\ calls'[c].pc = "done"

\* C28: on the server the issues stay the same issues and a resolved issue
\* stays resolved in every step; the update of PUT /lecturer/issues/:id/resolve
\* leaves the issue of that id resolved, whether it was open or resolved, and
\* every other issue as it was. In the hook, the step that takes up a
\* resolveIssue call the server answered with success marks the issue of
\* that id resolved in the local list, which the server then holds as
\* resolved, and leaves every other issue of the list unchanged; taking up a
\* call that failed leaves the list unchanged.
C28_StatusOnlyToResolved ==
    [][ /\ {d._id : d \in Issue'} = {d._id : d \in Issue}
        /\ \A d \in Issue : d.status = "resolved" => d \in Issue'
        /\ \A c \in DOMAIN conn :
              conn[c].pc = "await" /\ conn[c].route = "resolve" /\ conn'[c].res.status = 200 =>
                  /\ statusOf(Issue', conn[c].id) \subseteq {"resolved"}
                  /\ \A d \in Issue : d._id # conn[c].id => d \in Issue'
        /\ hook.name = "useIssues" =>
              \A c \in DOMAIN calls :
                  settles(c, "resolveIssue") =>
                      IF conn[c].res.status = 200 /\ conn[c].res.success
                      THEN /\ statusOf(hook'.issues, calls[c].arg) \subseteq {"resolved"}
                           /\ statusOf(Issue, calls[c].arg) \subseteq {"resolved"}
                           /\ \A i \in IssueIds \ {calls[c].arg} :
                                  statusOf(hook'.issues, i) = statusOf(hook.issues, i)
                           /\ {d._id : d \in hook'.issues} = {d._id : d \in hook.issues}
                      ELSE hook'.issues = hook.issues
      ]_vars

\* the hook resolved i1 after loading both issues: i1 is resolved in its list
\* and on the server, i2 is open in both; and a resolved issue was resolved
\* once more
C28_Witness ==
    /\ hook.name = "useIssues"
    /\ statusOf(hook.issues, "i1") = {"resolved"}
    /\ statusOf(hook.issues, "i2") = {"open"}
    /\ statusOf(Issue, "i1") = {"resolved"}
    /\ statusOf(Issue, "i2") = {"open"}
    /\ \E c \in DOMAIN calls :
          calls[c] = [fn |-> "resolveIssue", arg |-> "i1", pc |-> "done"]
    /\ \E c \in DOMAIN conn :
          conn[c].route = "resolve" /\ conn[c].id = "i1" /\ conn[c].res.status = 200
          /\ calls[c].fn = ""

(***************************************************************************)
(* useAuth (hooks/useLecturer.js:16-88) over loginLecturer, logoutLecturer *)
(* and validateToken (services/lecturerApi.js:118-157). The endpoints      *)
(* /lecturers/* are not in this repository: what they answer is an input.  *)
(***************************************************************************)
setAuthToken(token) == [k \in {"lecturer_auth_token"} |-> token]
removeAuthToken == <<>>

AuthCalls == {"mount", "k1", "k2"}     \* the mount effect and two calls by the page
Credentials == {"right", "wrong"}      \* what the login form sends

\* useState(false), useState(null), useState(true), useState(null)
useAuth == [name |-> "useAuth", isAuthenticated |-> FALSE, lecturer |-> "null",
            loading |-> TRUE, error |-> NoError]

\* what the endpoints may answer: "rejected" is a response that is not ok or
\* a network failure
validateAnswers(token) == IF token \in Tokens THEN {"valid", "invalid", "rejected"}
                          ELSE {"invalid", "rejected"}
loginAnswers(credentials) == IF credentials = "right" THEN {"success", "rejected"}
                             ELSE {"failure", "rejected"}
logoutAnswers == {"ok", "rejected"}

\* the mount effect: checkAuth up to its await, or to its end without a token
CheckAuth ==
    /\ calls["mount"].pc = "idle"
    /\ IF getAuthToken # NoToken
       THEN /\ calls' = [calls EXCEPT !["mount"] =
                   [fn |-> "validateToken", arg |-> getAuthToken, pc |-> "sent"]]
            /\ UNCHANGED hook
       ELSE /\ calls' = [calls EXCEPT !["mount"] =
                   [fn |-> "validateToken", arg |-> NoToken, pc |-> "done"]]
            /\ hook' = [hook EXCEPT !.loading = FALSE]
    /\ UNCHANGED <<Issue, User, conn, localStorage, serverVars, pureVars>>

\* validateToken answers and checkAuth runs from its await on
CheckAuthSettles(answer) ==
    /\ calls["mount"].pc = "sent"
    /\ answer \in validateAnswers(calls["mount"].arg)
    /\ IF answer = "valid"
       THEN /\ hook' = [hook EXCEPT !.isAuthenticated = TRUE, !.loading = FALSE]
            /\ UNCHANGED localStorage
       ELSE /\ hook' = [hook EXCEPT !.isAuthenticated = FALSE, !.loading = FALSE]
            /\ localStorage' = removeAuthToken
    /\ calls' = [calls EXCEPT !["mount"].pc = "done"]
    /\ UNCHANGED <<Issue, User, conn, serverVars, pureVars>>

\* login up to its await
Login(k, credentials) ==
    /\ calls[k].pc = "idle"
    /\ calls["mount"].pc # "idle"
    /\ hook' = [hook EXCEPT !.loading = TRUE, !.error = NoError]
    /\ calls' = [calls EXCEPT ![k] = [fn |-> "login", arg |-> credentials, pc |-> "sent"]]
    /\ UNCHANGED <<Issue, User, conn, localStorage, serverVars, pureVars>>

\* loginLecturer from its await on, then login from its await on
LoginSettles(k, answer) ==
    /\ calls[k].fn = "login"
    /\ calls[k].pc = "sent"
    /\ answer \in loginAnswers(calls[k].arg)
    /\ IF answer = "success"
       THEN /\ localStorage' = setAuthToken("jwt-l1")
            /\ hook' = [hook EXCEPT !.isAuthenticated = TRUE, !.lecturer = "l1",
                            !.loading = FALSE]
       ELSE /\ UNCHANGED localStorage
            /\ hook' = [hook EXCEPT !.error = "Login failed", !.loading = FALSE]
    /\ calls' = [calls EXCEPT ![k].pc = "done"]
    /\ UNCHANGED <<Issue, User, conn, serverVars, pureVars>>

\* logout up to its await
Logout(k) ==
    /\ calls[k].pc = "idle"
    /\ calls["mount"].pc # "idle"
    /\ hook' = [hook EXCEPT !.loading = TRUE]
    /\ calls' = [calls EXCEPT ![k] = [fn |-> "logout", arg |-> NoId, pc |-> "sent"]]
    /\ UNCHANGED <<Issue, User, conn, localStorage, serverVars, pureVars>>

\* logoutLecturer's finally, then logout's catch and finally
LogoutSettles(k, answer) ==
    /\ calls[k].fn = "logout"
    /\ calls[k].pc = "sent"
    /\ answer \in logoutAnswers
    /\ localStorage' = removeAuthToken
    /\ hook' = [hook EXCEPT !.isAuthenticated = FALSE, !.lecturer = "null",
                    !.loading = FALSE]
    /\ calls' = [calls EXCEPT ![k] = [@ EXCEPT !.pc = "done", !.arg = answer]]
    /\ UNCHANGED <<Issue, User, conn, serverVars, pureVars>>

\* the page is opened with no token, a token that verifies or one that expired
InitUseAuth ==
    /\ ServerIdle
    /\ marks = NoMarks /\ total = 0 /\ out = NoOut
    /\ studentsMarks = <<>>
    /\ gradeScales = jsonArray(<<>>)
    /\ selectedOfferingId = NoId
    /\ assessmentType = NoId
    /\ Issue = {}
    /\ User = {}
    /\ conn = <<>>
    /\ hook = useAuth
    /\ calls = [k \in AuthCalls |-> NoCall]
    /\ localStorage \in {removeAuthToken, setAuthToken("jwt-l1"), setAuthToken(BadToken)}

NextUseAuth ==
    \/ CheckAuth
    \/ \E answer \in {"valid", "invalid", "rejected"} : CheckAuthSettles(answer)
    \/ \E k \in AuthCalls \ {"mount"}, credentials \in Credentials : Login(k, credentials)
    \/ \E k \in AuthCalls \ {"mount"}, answer \in {"success", "failure", "rejected"} :
          LoginSettles(k, answer)
    \/ \E k \in AuthCalls \ {"mount"} : Logout(k)
    \/ \E k \in AuthCalls \ {"mount"}, answer \in logoutAnswers : LogoutSettles(k, answer)

SpecUseAuth == InitUseAuth /\ [][NextUseAuth]_vars

C29_LogoutClears ==
    [][\A k \in DOMAIN calls :
          calls[k].fn = "logout" /\ calls[k].pc = "sent" /\ calls'[k].pc = "done" =>
              /\ "lecturer_auth_token" \notin DOMAIN localStorage'
              /\ ~hook'.isAuthenticated]_vars

(***************************************************************************)
(* useLecturerData and useMarks (part_002:77-172) as the pages MarksEntry  *)
(* and StudentList use them. hook holds the state of both hook instances   *)
(* and the page's existingMarks; calls[k] is one call of a hook function.  *)
(* The lecturerApi functions resolve to the data of the offering asked for *)
(* or reject.                                                              *)
(***************************************************************************)
Pages == {"MarksEntry", "StudentList"}
DataCalls == {"fetchOfferings", "fetchStudents"}
MarksCalls == {"submitMarks", "fetchMarks", "exportCsv"}
\* the calls the page can make: the mount effect, two selections, one
\* submission and one export
PageCalls == {"mount", "students1", "marks1", "students2", "marks2", "submit", "export"}
Selections == {1, 2}

\* what the server holds for the offerings
enrolled(offeringId) == IF offeringId = "o1" THEN {"s1", "s2"} ELSE {"s3"}
storedMarks(offeringId) ==
    IF offeringId = "o1"
    THEN {[studentId |-> "s1", assessmentId |-> "a1", score |-> 70]}
    ELSE {[studentId |-> "s3", assessmentId |-> "a2", score |-> 20]}

\* useLecturerData: offerings, students, selectedOfferingId, loading, error;
\* useMarks: loading, error (submitting, submitError); the page: existingMarks
useLecturerData(page) ==
    [name |-> "useLecturerData", page |-> page,
     offerings |-> {}, students |-> {}, selectedOfferingId |-> "null",
     loading |-> FALSE, error |-> NoError,
     submitting |-> FALSE, submitError |-> NoError,
     existingMarks |-> {}]

Answers == {"ok", "rejected"}
settled(answer) == IF answer = "ok" THEN "done" ELSE "failed"
inFlight(k, fn) == calls[k].fn = fn /\ calls[k].pc = "sent"

\* the mount effect: fetchOfferings up to its await
FetchOfferings ==
    /\ calls["mount"].pc = "idle"
    /\ hook' = [hook EXCEPT !.loading = TRUE]
    /\ calls' = [calls EXCEPT !["mount"] = [fn |-> "fetchOfferings", arg |-> NoId, pc |-> "sent"]]
    /\ UNCHANGED <<Issue, User, conn, localStorage, serverVars, pureVars>>

\* fetchOfferings from its await on
FetchOfferingsSettles(answer) ==
    /\ inFlight("mount", "fetchOfferings")
    /\ hook' = IF answer = "ok"
               THEN [hook EXCEPT !.offerings = Offerings, !.loading = FALSE]
               ELSE [hook EXCEPT !.error = "rejected", !.loading = FALSE]
    /\ calls' = [calls EXCEPT !["mount"].pc = settled(answer)]
    /\ UNCHANGED <<Issue, User, conn, localStorage, serverVars, pureVars>>

studentsCall(n) == IF n = 1 THEN "students1" ELSE "students2"
marksCall(n) == IF n = 1 THEN "marks1" ELSE "marks2"

\* an offering of the list is picked. handleOfferingChange up to its await:
\* fetchStudents(offeringId) runs up to
\* its own await (setLoading(true), setSelectedOfferingId), StudentList clears
\* existingMarks, and fetchMarks(offeringId) is called
StudentList_handleOfferingChange(n, offeringId) ==
    /\ calls[studentsCall(n)].pc = "idle"
    /\ calls[marksCall(n)].pc = "idle"
    /\ n = 2 => calls[studentsCall(1)].pc # "idle"
    /\ offeringId \in hook.offerings
    /\ hook' = [hook EXCEPT !.loading = TRUE, !.selectedOfferingId = offeringId,
                    !.existingMarks = IF hook.page = "StudentList" THEN {} ELSE @]
    /\ calls' = [calls EXCEPT
           ![studentsCall(n)] = [fn |-> "fetchStudents", arg |-> offeringId, pc |-> "sent"],
           ![marksCall(n)] = [fn |-> "fetchMarks", arg |-> offeringId, pc |-> "sent"]]
    /\ UNCHANGED <<Issue, User, conn, localStorage, serverVars, pureVars>>

\* fetchStudents from its await on: setStudents(data || []) or setError, then
\* finally setLoading(false)
FetchStudentsSettles(k, answer) ==
    /\ inFlight(k, "fetchStudents")
    /\ hook' = IF answer = "ok"
               THEN [hook EXCEPT !.students = enrolled(calls[k].arg), !.loading = FALSE]
               ELSE [hook EXCEPT !.error = "rejected", !.loading = FALSE]
    /\ calls' = [calls EXCEPT ![k].pc = settled(answer)]
    /\ UNCHANGED <<Issue, User, conn, localStorage, serverVars, pureVars>>

\* fetchMarks from its await on (it never touches loading), then
\* handleOfferingChange from its await on: setExistingMarks on success
FetchMarksSettles(k, answer) ==
    /\ inFlight(k, "fetchMarks")
    /\ hook' = IF answer = "ok"
               THEN [hook EXCEPT !.existingMarks = storedMarks(calls[k].arg)]
               ELSE [hook EXCEPT !.submitError = "rejected"]
    /\ calls' = [calls EXCEPT ![k].pc = settled(answer)]
    /\ UNCHANGED <<Issue, User, conn, localStorage, serverVars, pureVars>>

\* submitMarks up to its await
SubmitMarks ==
    /\ calls["submit"].pc = "idle"
    /\ hook.selectedOfferingId # "null"
    /\ hook' = [hook EXCEPT !.submitting = TRUE, !.submitError = NoError]
    /\ calls' = [calls EXCEPT !["submit"] =
           [fn |-> "submitMarks", arg |-> hook.selectedOfferingId, pc |-> "sent"]]
    /\ UNCHANGED <<Issue, User, conn, localStorage, serverVars, pureVars>>

\* submitMarks from its await on
SubmitMarksSettles(answer) ==
    /\ inFlight("submit", "submitMarks")
    /\ hook' = IF answer = "ok"
               THEN [hook EXCEPT !.submitting = FALSE]
               ELSE [hook EXCEPT !.submitError = "rejected", !.submitting = FALSE]
    /\ calls' = [calls EXCEPT !["submit"].pc = settled(answer)]
    /\ UNCHANGED <<Issue, User, conn, localStorage, serverVars, pureVars>>

\* exportCsv up to its await (StudentList's export button)
ExportCsv ==
    /\ calls["export"].pc = "idle"
    /\ hook.page = "StudentList"
    /\ hook.selectedOfferingId # "null"
    /\ calls' = [calls EXCEPT !["export"] =
           [fn |-> "exportCsv", arg |-> hook.selectedOfferingId, pc |-> "sent"]]
    /\ UNCHANGED <<Issue, User, conn, hook, localStorage, serverVars, pureVars>>

\* exportCsv from its await on
ExportCsvSettles(answer) ==
    /\ inFlight("export", "exportCsv")
    /\ hook' = IF answer = "ok" THEN hook ELSE [hook EXCEPT !.submitError = "rejected"]
    /\ calls' = [calls EXCEPT !["export"].pc = settled(answer)]
    /\ UNCHANGED <<Issue, User, conn, localStorage, serverVars, pureVars>>

InitLecturerData ==
    /\ ServerIdle
    /\ marks = NoMarks /\ total = 0 /\ out = NoOut
    /\ studentsMarks = <<>>
    /\ gradeScales = jsonArray(<<>>)
    /\ selectedOfferingId = NoId
    /\ assessmentType = NoId
    /\ Issue = {}
    /\ User = {}
    /\ conn = <<>>
    /\ \E page \in Pages : hook = useLecturerData(page)
    /\ calls = [k \in PageCalls |-> NoCall]
    /\ localStorage = setAuthToken("jwt-l1")

NextLecturerData ==
    \/ FetchOfferings
    \/ \E answer \in Answers : FetchOfferingsSettles(answer)
    \/ \E n \in Selections, offeringId \in Offerings :
          StudentList_handleOfferingChange(n, offeringId)
    \/ \E k \in PageCalls, answer \in Answers : FetchStudentsSettles(k, answer)
    \/ \E k \in PageCalls, answer \in Answers : FetchMarksSettles(k, answer)
    \/ SubmitMarks
    \/ \E answer \in Answers : SubmitMarksSettles(answer)
    \/ ExportCsv
    \/ \E answer \in Answers : ExportCsvSettles(answer)

SpecLecturerData == InitLecturerData /\ [][NextLecturerData]_vars

(***************************************************************************)
(* C24: the roster and the marks shown belong to the offering selected     *)
(***************************************************************************)
\* every call of fn that was made has been answered, without a rejection
allAnswered(fn) ==
    /\ \E k \in DOMAIN calls : calls[k].fn = fn
    /\ \A k \in DOMAIN calls : calls[k].fn = fn => calls[k].pc = "done"

\* C24: once every fetchStudents request has completed, students is the
\* roster of the offering in selectedOfferingId, and once every fetchMarks
\* request of handleOfferingChange has completed, existingMarks are the marks
\* of that offering, whatever order the responses arrived in.
C24_DataOfSelectedOffering ==
    hook.name = "useLecturerData" =>
        /\ allAnswered("fetchStudents") =>
               hook.students = enrolled(hook.selectedOfferingId)
        /\ allAnswered("fetchMarks") =>
               hook.existingMarks = storedMarks(hook.selectedOfferingId)

(***************************************************************************)
(* C30: loading and the requests in flight                                 *)
(***************************************************************************)
\* C30: loading of useLecturerData is false only when none of its requests is
\* in flight, and loading of useMarks is false only when none of its requests
\* is in flight.
C30_LoadingWhileInFlight ==
    hook.name = "useLecturerData" =>
        /\ ~hook.loading =>
               \A k \in DOMAIN calls : ~(calls[k].fn \in DataCalls /\ calls[k].pc = "sent")
        /\ ~hook.submitting =>
               \A k \in DOMAIN calls : ~(calls[k].fn \in MarksCalls /\ calls[k].pc = "sent")

\* once no request of a hook is in flight, its loading is false, whether the
\* requests succeeded or failed
C30_LoadingReturnsToFalse ==
    hook.name = "useLecturerData" =>
        /\ (\A k \in DOMAIN calls : ~(calls[k].fn \in DataCalls /\ calls[k].pc = "sent"))
               => ~hook.loading
        /\ (\A k \in DOMAIN calls : ~(calls[k].fn \in MarksCalls /\ calls[k].pc = "sent"))
               => ~hook.submitting

(***************************************************************************)
(* useMarks of hooks/useLecturer.js (195-293): enterMarks, updateMarks and *)
(* bulkEnter over validateStudentMarks and validateBulkMarksEntry          *)
(* (utils/validation.js:133-188). A value that throws is a result with     *)
(* threw = TRUE: the async function then rejects where it stands.          *)
(***************************************************************************)
str(s) == [t |-> "string", v |-> s]
array(items) == [t |-> "array", items |-> items]

\* !x of an id
falsy(x) == x.t \in {"undefined", "NaN"} \/ (x.t = "string" /\ x.v = "")
            \/ (x.t = "number" /\ x.v = 0)
\* x.trim().length === 0 of a string
blank(x) == x.v \in {"", "  "}
\* !id || id.trim().length === 0: "throws" when id has no trim method
idCheck(id) == IF falsy(id) THEN "bad"
               ELSE IF id.t # "string" THEN "throws"
               ELSE IF blank(id) THEN "bad" ELSE "good"

threw(errors) == [threw |-> TRUE, isValid |-> FALSE, errors |-> errors]
returned(errors) == [threw |-> FALSE, isValid |-> Len(errors) = 0, errors |-> errors]

\* the errors of the five assessments, in the order of the assessments array
RECURSIVE assessmentErrors(_, _)
assessmentErrors(marksData, types) ==
    IF types = <<>> THEN <<>>
    ELSE validateAssessmentMarks(Head(types), marksData[Head(types)]).errors
             \o assessmentErrors(marksData, Tail(types))

validateStudentMarks(marksData) ==
    LET errors == assessmentErrors(marksData,
                      <<"assignment", "quiz", "project", "midsem", "finalExam">>)
        check == idCheck(marksData.studentId)
    IN  IF check = "throws" THEN threw(errors)
        ELSE returned(errors \o (IF check = "bad" THEN <<"Student ID is required">>
                                 ELSE <<>>))

\* studentIds.some(id => !id || id.trim().length === 0): the first id that is
\* not good decides
RECURSIVE some(_)
some(items) ==
    IF items = <<>> THEN "good"
    ELSE IF idCheck(Head(items)) = "good" THEN some(Tail(items))
    ELSE idCheck(Head(items))

validateBulkMarksEntry(studentIds, type, m) ==
    LET first == IF studentIds.t # "array" \/ Len(studentIds.items) = 0
                 THEN <<"At least one student ID is required">> ELSE <<>>
        check == IF studentIds.t # "array" THEN "throws" ELSE some(studentIds.items)
    IN  IF check = "throws" THEN threw(first)
        ELSE returned(first
                      \o (IF check = "bad" THEN <<"All student IDs must be valid">>
                          ELSE <<>>)
                      \o validateAssessmentMarks(type, m).errors)

\* the inputs of the forms
MarksCallIds == {"k1", "k2"}
StudentIdInputs == {str("s1"), str(""), str("  "), undefined, jsNumber(7)}
QuizInputs == {jsNumber(H(5)), jsNumber(H(16)), undefined}
MarksDataInputs ==
    {[assignment |-> jsNumber(H(10)), quiz |-> q, project |-> jsNumber(H(20)),
      midsem |-> jsNumber(H(12)), finalExam |-> jsNumber(H(21)), studentId |-> s] :
        q \in QuizInputs, s \in StudentIdInputs}
StudentIdsInputs ==
    {undefined, array(<<>>), array(<<str("s1")>>), array(<<str("s1"), str("")>>),
     array(<<jsNumber(7)>>), array(<<str(""), jsNumber(7)>>)}
BulkInputs ==
    {[studentIds |-> ids, assessmentType |-> type, marks |-> m] :
        ids \in StudentIdsInputs, type \in {"quiz", "homework"}, m \in QuizInputs}

\* the marks of a marksData that passed validation, in half marks
breakdown(marksData) == [k \in Kinds |-> marksData[k].v]

\* the validation a call of the hook runs on its input
validationOf(fn, arg) ==
    IF fn = "bulkEnter"
    THEN validateBulkMarksEntry(arg.studentIds, arg.assessmentType, arg.marks)
    ELSE validateStudentMarks(arg)

useMarks == [name |-> "useMarks", loading |-> FALSE, error |-> NoError]
NoResult == [success |-> FALSE, errors |-> <<>>, graded |-> FALSE]

\* enterMarks, updateMarks or bulkEnter up to its await, its early return or
\* the throw of its validator
EnterMarks(k, fn, arg) ==
    /\ calls[k].pc = "idle"
    /\ LET validation == validationOf(fn, arg) IN
       IF validation.threw
       THEN /\ hook' = [hook EXCEPT !.loading = TRUE, !.error = NoError]
            /\ calls' = [calls EXCEPT ![k] =
                   [fn |-> fn, arg |-> arg, pc |-> "rejected", result |-> NoResult]]
       ELSE IF ~validation.isValid
       THEN /\ hook' = [hook EXCEPT !.loading = FALSE, !.error = validation.errors]
            /\ calls' = [calls EXCEPT ![k] =
                   [fn |-> fn, arg |-> arg, pc |-> "returned",
                    result |-> [success |-> FALSE, errors |-> validation.errors,
                                graded |-> FALSE]]]
       ELSE /\ hook' = [hook EXCEPT !.loading = TRUE, !.error = NoError]
            /\ calls' = [calls EXCEPT ![k] =
                   [fn |-> fn, arg |-> arg, pc |-> "sent", result |-> NoResult]]
    /\ UNCHANGED <<Issue, User, conn, localStorage, serverVars, pureVars>>

\* the call from its await on: the grading result (enterMarks, updateMarks) and
\* the return value, or the catch; then finally
EnterMarksSettles(k, answer) ==
    /\ calls[k].pc = "sent"
    /\ IF answer = "ok"
       THEN /\ hook' = [hook EXCEPT !.loading = FALSE]
            /\ calls' = [calls EXCEPT ![k].pc = "returned",
                   ![k].result =
                       IF calls[k].fn = "bulkEnter"
                       THEN [success |-> TRUE, errors |-> <<>>, graded |-> FALSE]
                       ELSE [success |-> TRUE, errors |-> <<>>, graded |-> TRUE,
                             grading |-> calculateGradingResult(breakdown(calls[k].arg))]]
       ELSE /\ hook' = [hook EXCEPT !.loading = FALSE, !.error = <<"rejected">>]
            /\ calls' = [calls EXCEPT ![k].pc = "returned",
                   ![k].result = [success |-> FALSE, errors |-> <<>>, graded |-> FALSE]]
    /\ UNCHANGED <<Issue, User, conn, localStorage, serverVars, pureVars>>

InitUseMarks ==
    /\ ServerIdle
    /\ marks = NoMarks /\ total = 0 /\ out = NoOut
    /\ studentsMarks = <<>>
    /\ gradeScales = jsonArray(<<>>)
    /\ selectedOfferingId = NoId
    /\ assessmentType = NoId
    /\ Issue = {}
    /\ User = {}
    /\ conn = <<>>
    /\ hook = useMarks
    /\ calls = [k \in MarksCallIds |-> [NoCall EXCEPT !.arg = undefined]]
    /\ localStorage = setAuthToken("jwt-l1")

NextUseMarks ==
    \/ \E k \in MarksCallIds, fn \in {"enterMarks", "updateMarks"}, arg \in MarksDataInputs :
          EnterMarks(k, fn, arg)
    \/ \E k \in MarksCallIds, arg \in BulkInputs : EnterMarks(k, "bulkEnter", arg)
    \/ \E k \in MarksCallIds, answer \in Answers : EnterMarksSettles(k, answer)

SpecUseMarks == InitUseMarks /\ [][NextUseMarks]_vars

(***************************************************************************)
(* C22: a call whose input does not pass validation                        *)
(***************************************************************************)
\* C22: a call of enterMarks, updateMarks or bulkEnter whose input does not
\* pass validation returns at once with success = false and the validation
\* errors, sets error to those errors and leaves loading false; it issues no
\* API call and computes no grading result.
C22_InvalidInputIsReturned ==
    [][\A k \in DOMAIN calls :
          calls[k].pc = "idle" /\ calls'[k].pc # "idle"
          /\ ~validationOf(calls'[k].fn, calls'[k].arg).isValid =>
              /\ calls'[k].pc = "returned"
              /\ ~calls'[k].result.success
              /\ Len(calls'[k].result.errors) > 0
              /\ ~calls'[k].result.graded
              /\ hook'.error = calls'[k].result.errors
              /\ ~hook'.loading]_vars

\* whatever the input, a call whose input does not pass validation is never
\* sent to the API and never graded
C22_NoCallNoGrading ==
    \A k \in DOMAIN calls :
        hook.name = "useMarks" /\ calls[k].pc # "idle"
        /\ ~validationOf(calls[k].fn, calls[k].arg).isValid =>
            calls[k].pc # "sent" /\ ~calls[k].result.graded

====
